---- MODULE Spec2Model ----
(***************************************************************************)
(* A model of materialize-base: the expression evaluator with its per-file *)
(* scope and formula proxy (src/src/expressions.ts), the filter evaluator, *)
(* the materializer (src/materialize.ts) and the view selection of the CLI *)
(* (module.ts).                                                            *)
(*                                                                         *)
(* Expression sources are sequences of one-character strings, so that      *)
(* trimming and the if/file rewriting act on characters as the code does.  *)
(***************************************************************************)
EXTENDS Integers, Sequences, FiniteSets, TLC

\* ------------------------------------------------------------------ bounds
MaxClock == 2       \* the host clock reads 0..MaxClock
TicksPerDay == 2    \* clock ticks per local day (today() truncates to a day)
MaxDepth == 3       \* formula nesting depth past which a recursion counts as unbounded
MaxFiles == 2       \* files in the vault
MaxCalls == 2       \* calls of evaluate a library caller makes on one scope
MaxAmount == 2      \* the whole part of the amount of a duration segment is 1..MaxAmount
MaxTokens == 4      \* tokens in an expression source given to the pre-processing
MaxLinks == 2       \* links in the text of one vault file

\* ------------------------------------------------------------------ values
Undefined == [t |-> "undefined", n |-> 0, s |-> ""]
Null == [t |-> "null", n |-> 0, s |-> ""]
Bool(b) == [t |-> "boolean", n |-> IF b THEN 1 ELSE 0, s |-> ""]
Num(n) == [t |-> "number", n |-> n, s |-> ""]
NaN == [t |-> "number", n |-> 0, s |-> "NaN"]
Str(s) == [t |-> "string", n |-> 0, s |-> s]
DateV(ms) == [t |-> "date", n |-> ms, s |-> ""]
Obj(id) == [t |-> "object", n |-> 0, s |-> id]
Fn(id) == [t |-> "function", n |-> 0, s |-> id]
\* new RegExp(pattern, flags): s is the pattern, n is 1 under the flag i
RegExpV(pattern, flags) ==
  [t |-> "regexp", n |-> IF flags = "i" THEN 1 ELSE 0, s |-> pattern]

\* JavaScript truthiness, as used by !, &&, ||, ?: and Boolean()
Truthy(v) ==
  CASE v.t = "undefined" -> FALSE
    [] v.t = "null" -> FALSE
    [] v.t = "boolean" -> v.n = 1
    [] v.t = "number" -> v.s # "NaN" /\ v.n # 0
    [] v.t = "string" -> v.s # ""
    [] OTHER -> TRUE

IsNullish(v) == v.t \in {"undefined", "null"}

\* ------------------------------------------------------- character strings
RECURSIVE Join(_)
Join(chars) ==
  IF chars = <<>> THEN ""
  ELSE IF Len(chars) = 1 THEN chars[1]
  ELSE Join(SubSeq(chars, 1, Len(chars) \div 2))
         \o Join(SubSeq(chars, (Len(chars) \div 2) + 1, Len(chars)))

Letters ==
  {"a", "b", "c", "d", "e", "f", "g", "h", "i", "j", "k", "l", "m",
   "n", "o", "p", "q", "r", "s", "t", "u", "v", "w", "x", "y", "z",
   "A", "B", "C", "D", "E", "F", "G", "H", "I", "J", "K", "L", "M",
   "N", "O", "P", "Q", "R", "S", "T", "U", "V", "W", "X", "Y", "Z"}
Digits == {"0", "1", "2", "3", "4", "5", "6", "7", "8", "9"}
Whitespace == {" ", "\t", "\n"}
\* the backtick character, which cannot be written inside a TLA+ string
Backtick == "BACKTICK"

\* IDENTIFIER_CHAR_PATTERN = /[A-Za-z0-9_$]/ ; an absent character is not one
isIdentifierCharacter(char) == char \in Letters \cup Digits \cup {"_", "$"}

CharAt(chars, i) == IF i >= 1 /\ i <= Len(chars) THEN chars[i] ELSE ""

RECURSIVE TrimStart(_)
TrimStart(chars) ==
  IF chars # <<>> /\ Head(chars) \in Whitespace THEN TrimStart(Tail(chars)) ELSE chars

RECURSIVE TrimEnd(_)
TrimEnd(chars) ==
  IF chars # <<>> /\ chars[Len(chars)] \in Whitespace
  THEN TrimEnd(SubSeq(chars, 1, Len(chars) - 1)) ELSE chars

Trim(chars) == TrimEnd(TrimStart(chars))

RESERVED_IDENTIFIERS ==
  {"arguments", "eval", "prototype", "constructor", "__proto__", "super",
   "globalThis", "window", "if"}

GLOBAL_FUNCTION_ALIASES ==
  << [name |-> <<"i", "f">>, alias |-> <<"_", "i", "f">>],
     [name |-> <<"f", "i", "l", "e">>, alias |-> <<"_", "f", "i", "l", "e", "F", "n">>] >>

StartsWith(expression, name, index) ==
  /\ index + Len(name) - 1 <= Len(expression)
  /\ SubSeq(expression, index, index + Len(name) - 1) = name

RECURSIVE SkipWhitespace(_, _)
SkipWhitespace(expression, probe) ==
  IF probe <= Len(expression) /\ expression[probe] \in Whitespace
  THEN SkipWhitespace(expression, probe + 1) ELSE probe

\* the variant of the pass that also rewrites a method call after a dot
AliasApplies_AfterDot(expression, index, k) ==
  LET name == GLOBAL_FUNCTION_ALIASES[k].name
      previousChar == CharAt(expression, index - 1)
      nextChar == CharAt(expression, index + Len(name))
  IN /\ StartsWith(expression, name, index)
     /\ ~ (\/ isIdentifierCharacter(previousChar)
           \/ isIdentifierCharacter(nextChar))
     /\ CharAt(expression, SkipWhitespace(expression, index + Len(name))) = "("

\* One pass of the alias loop at position index: TRUE when entry k rewrites.
AliasApplies(expression, index, k) ==
  LET name == GLOBAL_FUNCTION_ALIASES[k].name
      previousChar == CharAt(expression, index - 1)
      nextChar == CharAt(expression, index + Len(name))
  IN /\ StartsWith(expression, name, index)
     /\ ~ (\/ isIdentifierCharacter(previousChar)
           \/ previousChar = "."
           \/ isIdentifierCharacter(nextChar))
     /\ CharAt(expression, SkipWhitespace(expression, index + Len(name))) = "("

\* 0 when no alias rewrites at index, else the first entry that does
AliasAt(expression, index) ==
  IF AliasApplies(expression, index, 1) THEN 1
  ELSE IF AliasApplies(expression, index, 2) THEN 2 ELSE 0

\* The loop of normalizeExpressionSource keeps index, result, escaping and
\* quote, which is "" outside quoted spans and else the quote character of
\* the open span (the code's inSingle / inDouble / inTemplate flags, of which
\* at most one is set). NormalizeAt is one iteration of the loop, which does
\* nothing once index is past the end.
NormalizeAt(expression, loop) ==
  IF loop.index > Len(expression) THEN loop
  ELSE
    LET char == expression[loop.index]
        k == AliasAt(expression, loop.index)
    IN
    IF loop.quote # "" THEN
      [index |-> loop.index + 1,
       quote |-> IF ~loop.escaping /\ char # "\\" /\ char = loop.quote THEN "" ELSE loop.quote,
       escaping |-> IF loop.escaping THEN FALSE ELSE char = "\\",
       result |-> Append(loop.result, char)]
    ELSE IF char \in {"'", "\"", Backtick} THEN
      [loop EXCEPT !.index = @ + 1, !.quote = char, !.result = Append(@, char)]
    ELSE IF k # 0 THEN
      [loop EXCEPT !.index = @ + Len(GLOBAL_FUNCTION_ALIASES[k].name),
                   !.result = @ \o GLOBAL_FUNCTION_ALIASES[k].alias]
    ELSE
      [loop EXCEPT !.index = @ + 1, !.result = Append(@, char)]

\* the loop run for a number of iterations, the second half of them after
\* the first half
RECURSIVE NormalizeFrom(_, _, _)
NormalizeFrom(expression, loop, iterations) ==
  IF iterations = 0 THEN loop
  ELSE IF iterations = 1 THEN NormalizeAt(expression, loop)
  ELSE CHOOSE ended \in {NormalizeFrom(expression, half, iterations - (iterations \div 2)) :
                           half \in {NormalizeFrom(expression, loop, iterations \div 2)}} : TRUE

\* every iteration moves index forward, so the loop has ended after one
\* iteration per character
normalizeExpressionSource(expression) ==
  NormalizeFrom(expression, [index |-> 1, quote |-> "", escaping |-> FALSE, result |-> <<>>],
                Len(expression)).result

\* IDENTIFIER_PATTERN = /^[A-Za-z_$][A-Za-z0-9_$]*$/
MatchesIdentifierPattern(chars) ==
  /\ chars # <<>>
  /\ chars[1] \in Letters \cup {"_", "$"}
  /\ \A i \in 2..Len(chars) : isIdentifierCharacter(chars[i])

isValidIdentifier(identifier) ==
  /\ MatchesIdentifierPattern(identifier)
  /\ Join(identifier) \notin RESERVED_IDENTIFIERS

\* ------------------------------------------------------ expression sources
\* The sources the model evaluates, as written in a base file.
Src ==
  [One |-> <<"1">>,
   True |-> <<"t", "r", "u", "e">>,
   False |-> <<"f", "a", "l", "s", "e">>,
   Blank |-> <<" ", " ">>,
   Undefined |-> <<"u", "n", "d", "e", "f", "i", "n", "e", "d">>,
   FormulaA |-> <<"f", "o", "r", "m", "u", "l", "a", ".", "a">>,
   FormulaB |-> <<"f", "o", "r", "m", "u", "l", "a", ".", "b">>,
   APlus1 |-> <<"f", "o", "r", "m", "u", "l", "a", ".", "a", " ", "+", " ", "1">>,
   BPlus1 |-> <<"f", "o", "r", "m", "u", "l", "a", ".", "b", " ", "+", " ", "1">>,
   GuardA |-> <<"t", "r", "u", "e", " ", "|", "|", " ", "f", "o", "r", "m", "u", "l", "a", ".", "a">>,
   CondB |-> <<"f", "a", "l", "s", "e", " ", "?", " ", "f", "o", "r", "m", "u", "l", "a", ".", "b", " ", ":", " ", "2">>,
   Now |-> <<"n", "o", "w", "(", ")">>,
   Today |-> <<"t", "o", "d", "a", "y", "(", ")">>,
   Reverse |-> <<"f", "i", "l", "e", ".", "t", "a", "g", "s", ".", "r", "e", "v", "e", "r", "s", "e", "(", ")">>,
   Tag0 |-> <<"f", "i", "l", "e", ".", "t", "a", "g", "s", "[", "0", "]">>,
   Escape |-> <<"M", "a", "t", "h", ".", "m", "a", "x", ".", "c", "o", "n", "s", "t", "r", "u", "c", "t", "o", "r", "(", "'", "x", "'", ")", "(", ")">>,
   Status |-> <<"s", "t", "a", "t", "u", "s">>,
   Missing |-> <<"m", "i", "s", "s", "i", "n", "g">>,
   If |-> <<"i", "f", "(", "s", "t", "a", "t", "u", "s", ",", " ", "1", ",", " ", "2", ")">>,
   FileName |-> <<" ", "f", "i", "l", "e", ".", "n", "a", "m", "e", " ">>,
   Bad |-> <<"1", " ", "+">>,
   StatusX |-> <<"s", "t", "a", "t", "u", "s", " ", "=", "=", " ", "'", "x", "'">>,
   Math |-> <<"M", "a", "t", "h">>,
   MathMax |-> <<"M", "a", "t", "h", ".", "m", "a", "x", "(", "1", ",", " ", "2", ")">>,
   Duration |-> <<"d", "u", "r", "a", "t", "i", "o", "n", "(", "s", ")">>,
   DPlusS |-> <<"d", " ", "+", " ", "s">>,
   DPlusDuration |-> <<"d", " ", "+", " ", "d", "u", "r", "a", "t", "i", "o", "n", "(", "s", ")">>,
   DMinusS |-> <<"d", " ", "-", " ", "s">>,
   DMinusE |-> <<"d", " ", "-", " ", "e">>,
   DMinusN |-> <<"d", " ", "-", " ", "n">>,
   OrMissing |-> <<"n", "o", "t", "e", ".", "a", " ", "?", "?", " ", "m", "i", "s", "s", "i", "n", "g">>,
   OrFormulaB |-> <<"n", "o", "t", "e", ".", "a", " ", "?", "?", " ", "f", "o", "r", "m", "u", "l", "a", ".", "b">>,
   Matches |-> <<"/", "a", "l", "/", "i", ".", "m", "a", "t", "c", "h", "e", "s", "(", "n", "o", "t", "e", ".", "a", ")">>,
   Test |-> <<"/", "a", "l", "/", "i", ".", "t", "e", "s", "t", "(", "n", "o", "t", "e", ".", "a", ")">>,
   TestExact |-> <<"/", "a", "l", "/", ".", "t", "e", "s", "t", "(", "n", "o", "t", "e", ".", "a", ")">>,
   XOrMissing |-> <<"s", "t", "a", "t", "u", "s", " ", "=", "=", " ", "'", "x", "'", " ", "|", "|", " ", "m", "i", "s", "s", "i", "n", "g">>,
   AndA |-> <<"f", "a", "l", "s", "e", " ", "&", "&", " ", "f", "o", "r", "m", "u", "l", "a", ".", "a">>,
   CoalesceA |-> <<"1", " ", "?", "?", " ", "f", "o", "r", "m", "u", "l", "a", ".", "a">>,
   CondA |-> <<"f", "a", "l", "s", "e", " ", "?", " ", "f", "o", "r", "m", "u", "l", "a", ".", "a", " ", ":", " ", "2">>,
   BadIf |-> <<"i", "f", "(", "1", " ", "+">>,
   BadFile |-> <<"f", "i", "l", "e", "(", "1", " ", "+">>,
   BadAfterIf |-> <<"i", "f", "(", "1", ")", " ", "+">>]

\* --------------------------------------------------------------- the parser
\* AST nodes as jsep builds them.
Literal(v) == [type |-> "Literal", value |-> v]
Identifier(name) == [type |-> "Identifier", name |-> name]
Member(object, name) ==
  [type |-> "MemberExpression", computed |-> FALSE, object |-> object,
   property |-> Identifier(name)]
ComputedMember(object, property) ==
  [type |-> "MemberExpression", computed |-> TRUE, object |-> object,
   property |-> property]
CallExpr(callee, arguments) ==
  [type |-> "CallExpression", callee |-> callee, arguments |-> arguments]
Binary(operator, left, right) ==
  [type |-> "BinaryExpression", operator |-> operator, left |-> left, right |-> right]
Conditional(test, consequent, alternate) ==
  [type |-> "ConditionalExpression", test |-> test, consequent |-> consequent,
   alternate |-> alternate]
ParseError == [type |-> "ParseError"]

\* jsep is an external library: its result is tabulated for the normalized
\* sources of the model; any other text is a parse error.
jsep(source) ==
  CASE source = "1" -> Literal(Num(1))
    [] source = "true" -> Literal(Bool(TRUE))
    [] source = "false" -> Literal(Bool(FALSE))
    [] source = "undefined" -> Literal(Undefined)
    [] source = "formula.a" -> Member(Identifier("formula"), "a")
    [] source = "formula.b" -> Member(Identifier("formula"), "b")
    [] source = "formula.a + 1" ->
         Binary("+", Member(Identifier("formula"), "a"), Literal(Num(1)))
    [] source = "formula.b + 1" ->
         Binary("+", Member(Identifier("formula"), "b"), Literal(Num(1)))
    [] source = "true || formula.a" ->
         Binary("||", Literal(Bool(TRUE)), Member(Identifier("formula"), "a"))
    [] source = "false ? formula.b : 2" ->
         Conditional(Literal(Bool(FALSE)), Member(Identifier("formula"), "b"),
                     Literal(Num(2)))
    [] source = "now()" -> CallExpr(Identifier("now"), <<>>)
    [] source = "today()" -> CallExpr(Identifier("today"), <<>>)
    [] source = "file.tags.reverse()" ->
         CallExpr(Member(Member(Identifier("file"), "tags"), "reverse"), <<>>)
    [] source = "file.tags[0]" ->
         ComputedMember(Member(Identifier("file"), "tags"), Literal(Num(0)))
    [] source = "Math.max.constructor('x')()" ->
         CallExpr(CallExpr(Member(Member(Identifier("Math"), "max"), "constructor"),
                           <<Literal(Str("x"))>>), <<>>)
    [] source = "status" -> Identifier("status")
    [] source = "missing" -> Identifier("missing")
    [] source = "_if(status, 1, 2)" ->
         CallExpr(Identifier("_if"),
                  <<Identifier("status"), Literal(Num(1)), Literal(Num(2))>>)
    [] source = "file.name" -> Member(Identifier("file"), "name")
    [] source = "status == 'x'" ->
         Binary("==", Identifier("status"), Literal(Str("x")))
    [] source = "Math" -> Identifier("Math")
    [] source = "Math.max(1, 2)" ->
         CallExpr(Member(Identifier("Math"), "max"), <<Literal(Num(1)), Literal(Num(2))>>)
    [] source = "duration(s)" -> CallExpr(Identifier("duration"), <<Identifier("s")>>)
    [] source = "d + s" -> Binary("+", Identifier("d"), Identifier("s"))
    [] source = "d + duration(s)" ->
         Binary("+", Identifier("d"), CallExpr(Identifier("duration"), <<Identifier("s")>>))
    [] source = "d - s" -> Binary("-", Identifier("d"), Identifier("s"))
    [] source = "d - e" -> Binary("-", Identifier("d"), Identifier("e"))
    [] source = "d - n" -> Binary("-", Identifier("d"), Identifier("n"))
    [] source = "note.a ?? missing" ->
         Binary("??", Member(Identifier("note"), "a"), Identifier("missing"))
    [] source = "note.a ?? formula.b" ->
         Binary("??", Member(Identifier("note"), "a"), Member(Identifier("formula"), "b"))
    [] source = "status == 'x' || missing" ->
         Binary("||", Binary("==", Identifier("status"), Literal(Str("x"))),
                Identifier("missing"))
    [] source = "false && formula.a" ->
         Binary("&&", Literal(Bool(FALSE)), Member(Identifier("formula"), "a"))
    [] source = "1 ?? formula.a" ->
         Binary("??", Literal(Num(1)), Member(Identifier("formula"), "a"))
    [] source = "false ? formula.a : 2" ->
         Conditional(Literal(Bool(FALSE)), Member(Identifier("formula"), "a"),
                     Literal(Num(2)))
    [] source = "/al/i.matches(note.a)" ->
         CallExpr(Member(Literal(RegExpV("al", "i")), "matches"),
                  <<Member(Identifier("note"), "a")>>)
    [] source = "/al/i.test(note.a)" ->
         CallExpr(Member(Literal(RegExpV("al", "i")), "test"),
                  <<Member(Identifier("note"), "a")>>)
    [] source = "/al/.test(note.a)" ->
         CallExpr(Member(Literal(RegExpV("al", "")), "test"),
                  <<Member(Identifier("note"), "a")>>)
    [] OTHER -> ParseError

\* ---------------------------------------------------------------- the scope
GLOBAL_FUNCTIONS ==
  <<"today", "now", "date", "duration", "file", "if", "image", "icon", "link",
    "list", "max", "min", "number">>

GlobalFunctionKeys == {GLOBAL_FUNCTIONS[i] : i \in 1..Len(GLOBAL_FUNCTIONS)}

\* the global function `name` as a value
GlobalFn(name) == Fn("global." \o name)

\* the alias of a global function name, "" when it has none
AliasOf(name) ==
  IF name = "if" THEN "_if" ELSE IF name = "file" THEN "_fileFn" ELSE ""

BUILTIN_SCOPE_ENTRIES ==
  << [key |-> "Array", value |-> Fn("Array")],
     [key |-> "Boolean", value |-> Fn("Boolean")],
     [key |-> "Date", value |-> Fn("Date")],
     [key |-> "JSON", value |-> Obj("JSON")],
     [key |-> "Map", value |-> Fn("Map")],
     [key |-> "Math", value |-> Obj("Math")],
     [key |-> "Number", value |-> Fn("Number")],
     [key |-> "Object", value |-> Fn("Object")],
     [key |-> "Reflect", value |-> Obj("Reflect")],
     [key |-> "RegExp", value |-> Fn("RegExp")],
     [key |-> "Set", value |-> Fn("Set")],
     [key |-> "String", value |-> Fn("String")],
     [key |-> "Symbol", value |-> Fn("Symbol")],
     [key |-> "WeakMap", value |-> Fn("WeakMap")],
     [key |-> "WeakSet", value |-> Fn("WeakSet")],
     [key |-> "BigInt", value |-> Fn("BigInt")] >>

BuiltinKeys == {BUILTIN_SCOPE_ENTRIES[i].key : i \in 1..Len(BUILTIN_SCOPE_ENTRIES)}

\* scope[key] = value
Bind(scope, key, value) == (key :> value) @@ scope

\* if (!hasOwnProperty(scope, key)) scope[key] = bindings[key], for every key
\* of bindings
BindIfAbsent(scope, bindings) == scope @@ bindings

\* first loop: the entries of note (the frontmatter), from entry i on
RECURSIVE PromoteNote(_, _, _)
PromoteNote(scope, note, i) ==
  IF i > Len(note) THEN scope
  ELSE
    LET key == Join(note[i].key)
        next ==
          IF /\ key \notin DOMAIN scope
             /\ isValidIdentifier(note[i].key)
             /\ key \notin GlobalFunctionKeys
          THEN Bind(scope, key, note[i].value) ELSE scope
    IN PromoteNote(next, note, i + 1)

\* second loop: the global functions and their aliases, from entry i on. Every
\* step binds a key only when the scope does not own it and no two steps bind
\* the same key, so the loop leaves the scope with the keys it lacked.
BindGlobals(scope, i) ==
  LET names == {GLOBAL_FUNCTIONS[n] : n \in i..Len(GLOBAL_FUNCTIONS)}
      keys == (names \cup {AliasOf(name) : name \in names}) \ {""}
      NameOf(key) == CHOOSE name \in names : key \in {name, AliasOf(name)}
  IN BindIfAbsent(scope, [key \in keys |-> GlobalFn(NameOf(key))])

\* third loop: the built-in namespaces, from entry i on, each bound only when
\* the scope does not own its key
BindBuiltins(scope, i) ==
  LET entries == {BUILTIN_SCOPE_ENTRIES[n] : n \in i..Len(BUILTIN_SCOPE_ENTRIES)}
  IN BindIfAbsent(scope, [key \in {entry.key : entry \in entries} |->
                            (CHOOSE entry \in entries : entry.key = key).value])

InitialScope ==
  [k \in {"file", "frontmatter", "metadata", "note", "properties"} |->
     CASE k = "file" -> Obj("file")
       [] k = "frontmatter" -> Obj("note")
       [] k = "metadata" -> Obj("metadata")
       [] k = "note" -> Obj("note")
       [] k = "properties" -> Obj("properties")]

\* The scope of buildEvaluationState for a file whose frontmatter is the
\* sequence note of [key, value] entries.
BuildScope(note) ==
  Bind(BindBuiltins(BindGlobals(PromoteNote(InitialScope, note, 1), 1), 1),
       "formula", Obj("formula"))

\* ------------------------------------------------------ evaluation results
\* An evaluation threads the record st: what the closures of
\* buildEvaluationState capture (scope, formulas, formulaCache, evaluating,
\* compiled), the file it was built from (file, note, tags), the host clock,
\* and the observers count, stack, reentered, silent, diverged, codegen.
\* A result is a returned value or a raised error with its cause chain, the
\* outermost message first.
Return(v, st) == [ok |-> TRUE, val |-> v, err |-> <<>>, st |-> st]
Throw(message, st) == [ok |-> FALSE, val |-> Undefined, err |-> <<message>>, st |-> st]
\* new Error(message, { cause: error })
Wrap(message, r) == [r EXCEPT !.err = <<message>> \o @]

CircularMessage(propKey) ==
  "Circular formula reference detected for \"" \o propKey \o "\""

\* a map whose set stores nothing
Put_Dropped(map, key, value) == map

Put(map, key, value) == (key :> value) @@ map

Range(seq) == {seq[i] : i \in 1..Len(seq)}

RECURSIVE Reverse(_)
Reverse(seq) == IF seq = <<>> THEN <<>> ELSE Append(Reverse(Tail(seq)), Head(seq))

NumStr(n) ==
  CASE n = 0 -> "0" [] n = 1 -> "1" [] n = 2 -> "2" [] n = 3 -> "3"
    [] n = 4 -> "4" [] OTHER -> "n"

\* String(value) for the values of the model
ToStr(v) ==
  CASE v.t = "string" -> v.s
    [] v.t = "number" -> IF v.s = "NaN" THEN "NaN" ELSE NumStr(v.n)
    [] v.t = "boolean" -> IF v.n = 1 THEN "true" ELSE "false"
    [] v.t = "undefined" -> "undefined"
    [] v.t = "null" -> "null"
    [] v.t = "date" -> "date:" \o NumStr(v.n)
    [] OTHER -> "[object " \o v.s \o "]"

toPropertyKey(value) == ToStr(value)

\* ---------------------------------------------------------------- durations
\* Time is counted in tenths of a second, so that the length of a year fits a
\* machine integer: 10 stands for the 1_000 ms of a second, 600 for the
\* 60_000 ms of a minute. An amount is counted in tenths, so it may have one
\* fractional digit, and amount * multiplier is tenths * (multiplier / 10).
MILLISECONDS_IN ==
  LET Of(SECOND, MINUTE, HOUR, DAY) ==
        [SECOND |-> SECOND, MINUTE |-> MINUTE, HOUR |-> HOUR, DAY |-> DAY,
         WEEK |-> 7 * DAY, MONTH |-> 30 * DAY, YEAR |-> 365 * DAY]
  IN Of(10, 60 * 10, 60 * 60 * 10, 24 * 60 * 60 * 10)

DURATION_UNIT_MULTIPLIERS ==
  LET Of(ms) ==
        [y |-> ms.YEAR, year |-> ms.YEAR, years |-> ms.YEAR,
         M |-> ms.MONTH, month |-> ms.MONTH, months |-> ms.MONTH,
         w |-> ms.WEEK, week |-> ms.WEEK, weeks |-> ms.WEEK,
         d |-> ms.DAY, day |-> ms.DAY, days |-> ms.DAY,
         h |-> ms.HOUR, hour |-> ms.HOUR, hours |-> ms.HOUR,
         m |-> ms.MINUTE, min |-> ms.MINUTE, mins |-> ms.MINUTE,
         minute |-> ms.MINUTE, minutes |-> ms.MINUTE,
         s |-> ms.SECOND, sec |-> ms.SECOND, secs |-> ms.SECOND,
         second |-> ms.SECOND, seconds |-> ms.SECOND]
  IN Of(MILLISECONDS_IN)

\* the characters of a string
Chars(string) == [k \in 1..Len(string) |-> SubSeq(string, k, k)]

\* String.prototype.toLowerCase on one character
ToLowerCase(char) ==
  LET Lower(upper, lower) ==
        IF \E k \in 1..26 : SubSeq(upper, k, k) = char
        THEN LET k == CHOOSE k \in 1..26 : SubSeq(upper, k, k) = char
             IN SubSeq(lower, k, k)
        ELSE char
  IN Lower("ABCDEFGHIJKLMNOPQRSTUVWXYZ", "abcdefghijklmnopqrstuvwxyz")

LowerCase(chars) == [k \in 1..Len(chars) |-> ToLowerCase(chars[k])]

\* The alternatives of the unit group of DURATION_PATTERN, in the order the
\* regular expression tries them: x? is tried with the x before without it.
DURATION_PATTERN_UNITS ==
  <<"years", "year", "y", "months", "month", "M", "weeks", "week", "w",
    "days", "day", "d", "hours", "hour", "h", "minutes", "minute",
    "mins", "min", "min", "m", "seconds", "second", "secs", "sec", "sec", "s">>

\* the end of the run of characters of set that starts at index from
RECURSIVE SkipRun(_, _, _)
SkipRun(chars, from, set) ==
  IF from <= Len(chars) /\ chars[from] \in set THEN SkipRun(chars, from + 1, set)
  ELSE from

\* the alternative unit of the unit group matches at index from, under the
\* flag i
UnitMatches(chars, from, unit) ==
  /\ from + Len(unit) - 1 <= Len(chars)
  /\ LowerCase(SubSeq(chars, from, from + Len(unit) - 1)) = LowerCase(Chars(unit))

\* One attempt of DURATION_PATTERN at index from:
\* (-?\d+(?:\.\d+)?) \s* (unit). The quantifiers are greedy, and giving
\* characters back never helps: what then follows the number is a digit or
\* a dot, and what follows the white space is white space, none of which
\* begins a unit. The unit is the first alternative that matches.
MatchAt(chars, from) ==
  LET NoMatch == [found |-> FALSE, index |-> 0, amount |-> <<>>, unit |-> <<>>,
                  lastIndex |-> 0]
      Matched(fraction, unit, length) ==
        [found |-> TRUE, index |-> from,
         amount |-> SubSeq(chars, from, fraction - 1),
         unit |-> SubSeq(chars, unit, unit + length - 1),
         lastIndex |-> unit + length]
      First(fraction, unit, units, first) ==
        IF first = {} THEN NoMatch
        ELSE Matched(fraction, unit, Len(units[CHOOSE k \in first : TRUE]))
      Alternatives(fraction, unit, units, alternatives) ==
        First(fraction, unit, units,
              {k \in alternatives : \A other \in alternatives : k <= other})
      Unit(fraction, unit, units) ==
        Alternatives(fraction, unit, units,
                     {k \in 1..Len(units) : UnitMatches(chars, unit, units[k])})
      Fraction(fraction) ==
        Unit(fraction, SkipRun(chars, fraction, Whitespace), DURATION_PATTERN_UNITS)
      Whole(digits, whole) ==
        IF whole = digits THEN NoMatch
        ELSE Fraction(IF CharAt(chars, whole) = "." /\ CharAt(chars, whole + 1) \in Digits
                      THEN SkipRun(chars, whole + 1, Digits) ELSE whole)
      Sign(digits) == Whole(digits, SkipRun(chars, digits, Digits))
  IN Sign(IF CharAt(chars, from) = "-" THEN from + 1 ELSE from)

\* DURATION_PATTERN.exec(chars) with lastIndex = from: the leftmost match
RECURSIVE DurationExec(_, _)
DurationExec(chars, from) ==
  LET Then(match) ==
        IF match.found \/ from > Len(chars) THEN match ELSE DurationExec(chars, from + 1)
  IN Then(MatchAt(chars, from))

\* Number.parseFloat of the text of a number, in tenths; the digits past the
\* first fractional one are outside the amounts of the model
ParseFloatTenths(text) ==
  LET DigitValue(char) == CHOOSE v \in 0..9 : SubSeq("0123456789", v + 1, v + 1) = char
      RECURSIVE Whole(_, _, _)
      Whole(k, end, value) ==
        IF k > end THEN value ELSE Whole(k + 1, end, 10 * value + DigitValue(text[k]))
      Tenths(start, end) ==
        10 * Whole(start, end, 0)
          + (IF end + 2 <= Len(text) THEN DigitValue(text[end + 2]) ELSE 0)
      Signed(start) ==
        (IF start = 2 THEN 0 - 1 ELSE 1) * Tenths(start, SkipRun(text, start, Digits) - 1)
  IN Signed(IF CharAt(text, 1) = "-" THEN 2 ELSE 1)

\* A duration or the error parseDuration raises
DurationOf(total) == [ok |-> TRUE, total |-> total, err |-> ""]
DurationError(message) == [ok |-> FALSE, total |-> 0, err |-> message]

\* a test for non-white-space text that finds none
HasNonWhitespace_Never(chars) == FALSE

\* /\S/.test(chars)
HasNonWhitespace(chars) == \E k \in 1..Len(chars) : chars[k] \notin Whitespace

\* the while loop of parseDuration and the checks after it
RECURSIVE DurationLoop(_, _, _, _, _)
DurationLoop(input, trimmed, total, lastIndex, matched) ==
  LET Invalid(what, text) ==
        DurationError(what \o " \"" \o text \o "\" in \"" \o Join(input) \o "\".")
      Multiplied(exec, unitRaw, lowered, multipliers) ==
        IF unitRaw \notin DOMAIN multipliers /\ lowered \notin DOMAIN multipliers
        THEN Invalid("Unsupported duration unit", unitRaw)
        ELSE DurationLoop(input, trimmed,
                          total + ParseFloatTenths(exec.amount)
                                    * (multipliers[IF unitRaw \in DOMAIN multipliers
                                                   THEN unitRaw ELSE lowered] \div 10),
                          exec.lastIndex, TRUE)
      Between(exec, between) ==
        IF exec.index # lastIndex /\ HasNonWhitespace(between)
        THEN Invalid("Invalid duration segment", Join(Trim(between)))
        ELSE Multiplied(exec, Join(exec.unit), Join(LowerCase(exec.unit)),
                        DURATION_UNIT_MULTIPLIERS)
      Remainder(remainder) ==
        IF ~matched
        THEN DurationError("Unable to parse duration string \"" \o Join(input) \o "\".")
        ELSE IF lastIndex <= Len(trimmed) /\ HasNonWhitespace(remainder)
        THEN Invalid("Invalid trailing content", Join(Trim(remainder)))
        ELSE DurationOf(total)
      Then(exec) ==
        IF exec.found THEN Between(exec, SubSeq(trimmed, lastIndex, exec.index - 1))
        ELSE Remainder(SubSeq(trimmed, lastIndex, Len(trimmed)))
  IN Then(DurationExec(trimmed, lastIndex))

parseDuration(input) ==
  LET Trimmed(trimmed) ==
        IF trimmed = <<>> THEN DurationError("duration() requires a non-empty string.")
        ELSE DurationLoop(input, trimmed, 0, 1, FALSE)
  IN Trimmed(Trim(input))

\* null, here [some |-> FALSE], for a value that is no string and for a string
\* parseDuration rejects
tryParseDuration(input) ==
  LET Parsed(r) ==
        IF r.ok THEN [some |-> TRUE, ms |-> r.total] ELSE [some |-> FALSE, ms |-> 0]
  IN IF input.t # "string" THEN [some |-> FALSE, ms |-> 0]
     ELSE Parsed(parseDuration(Chars(input.s)))

\* The duration texts of the model, each with what it was built from: a
\* "segment" is an amount of tenths tenths followed by the token unit of the
\* unit table, with or without a space between; a "sum" is two segments; the
\* other kinds are the malformed texts, named by where the text that is no
\* segment stands.
DurationAmounts ==
  UNION {{[text |-> <<NumStr(n)>>, tenths |-> 10 * n],
          [text |-> <<"-", NumStr(n)>>, tenths |-> 0 - 10 * n],
          [text |-> <<NumStr(n), ".", "5">>, tenths |-> 10 * n + 5]} : n \in 1..MaxAmount}

DurationSegments ==
  LET Of(units) ==
        {[text |-> amount.text \o gap \o Chars(unit), kind |-> "segment",
          tenths |-> amount.tenths, unit |-> unit] :
           amount \in DurationAmounts, gap \in {<<>>, <<" ">>},
           unit \in {units[k] : k \in DOMAIN units}}
  IN Of(DURATION_PATTERN_UNITS)

DurationInputs ==
  LET Malformed(kind, texts) ==
        {[text |-> text, kind |-> kind, tenths |-> 0, unit |-> ""] : text \in texts}
      first == {<<"1", "d">>, <<"2", " ", "h">>, <<"1", ".", "5", "s">>}
      second == {<<"2", "h">>, <<"1", " ", "w">>}
      junk == {<<"x">>, <<",">>, <<"f", "o", "r", "t", "n", "i", "g", "h", "t">>}
      space == {<<>>, <<" ">>}
  IN DurationSegments
       \cup {[text |-> a \o gap \o b, kind |-> "sum", tenths |-> 0, unit |-> ""] :
               a \in first, gap \in space, b \in second}
       \cup Malformed("empty", {<<>>, <<" ">>, <<" ", "\t", " ">>})
       \cup Malformed("no segment",
                      {<<"1", " ", "f", "o", "r", "t", "n", "i", "g", "h", "t">>,
                       <<"1">>, <<"d", "a", "y">>, <<"x">>, <<"1", ".", "d">>})
       \cup Malformed("before", {j \o gap \o a : j \in junk, gap \in space, a \in first})
       \cup Malformed("between",
                      {a \o gap \o j \o gap \o b :
                         a \in first, gap \in space, j \in junk, b \in second}
                        \cup {<<"1", ".", "5", ".", "2", "d">>})
       \cup Malformed("after",
                      {a \o gap \o j : a \in first, gap \in space, j \in junk}
                        \cup {<<"1", "d", "a", "y", "2">>})


\* Number(value); dates by getTime(). Of the strings that are numbers, the
\* model holds blank ones and runs of digits.
toNumeric(v) ==
  CASE v.t = "number" -> v
    [] v.t = "date" -> Num(v.n)
    [] v.t = "boolean" -> Num(v.n)
    [] v.t = "null" -> Num(0)
    [] v.t = "string" ->
         LET Number(text) ==
               IF text = <<>> THEN Num(0)
               ELSE IF \A k \in 1..Len(text) : text[k] \in Digits
               THEN Num(ParseFloatTenths(text) \div 10)
               ELSE NaN
         IN Number(Trim(Chars(v.s)))
    [] OTHER -> NaN

\* the variant that takes no string for a duration
toNullishAwareDuration_NumbersOnly(v) ==
  IF v.t = "number" /\ v.s = "" THEN [some |-> TRUE, ms |-> v.n]
  ELSE [some |-> FALSE, ms |-> 0]

\* a finite number is a duration in milliseconds, a string the duration it
\* parses as; anything else is null, here [some |-> FALSE]
toNullishAwareDuration(v) ==
  IF v.t = "number" /\ v.s = "" THEN [some |-> TRUE, ms |-> v.n]
  ELSE IF v.t = "string" THEN tryParseDuration(v)
  ELSE [some |-> FALSE, ms |-> 0]

nativeAdd(left, right) ==
  IF left.t = "string" \/ right.t = "string" \/ left.t \in {"object", "function", "date"}
     \/ right.t \in {"object", "function", "date"}
  THEN Str(ToStr(left) \o ToStr(right))
  ELSE LET l == toNumeric(left)
           r == toNumeric(right)
       IN IF l.s = "NaN" \/ r.s = "NaN" THEN NaN ELSE Num(l.n + r.n)

applyAddition(left, right) ==
  LET Durations(ofLeft, ofRight) ==
        IF left.t = "date" /\ ofRight.some THEN DateV(left.n + ofRight.ms)
        ELSE IF right.t = "date" /\ ofLeft.some THEN DateV(right.n + ofLeft.ms)
        ELSE nativeAdd(left, right)
  IN Durations(toNullishAwareDuration(left), toNullishAwareDuration(right))

\* the variant that subtracts the numeric values of its operands
applySubtraction_Numeric(left, right) ==
  LET Numeric(l, r) == IF l.s # "" \/ r.s # "" THEN NaN ELSE Num(l.n - r.n)
  IN Numeric(toNumeric(left), toNumeric(right))

applySubtraction(left, right) ==
  LET Numeric(l, r) == IF l.s # "" \/ r.s # "" THEN NaN ELSE Num(l.n - r.n)
      Duration(duration) ==
        IF left.t = "date" /\ duration.some THEN DateV(left.n - duration.ms)
        ELSE Numeric(toNumeric(left), toNumeric(right))
  IN IF left.t = "date" /\ right.t = "date" THEN Num(left.n - right.n)
     ELSE Duration(toNullishAwareDuration(right))

\* == on values of one type, and null == undefined; the model compares no
\* values across the other types
LooseEquals(left, right) ==
  \/ IsNullish(left) /\ IsNullish(right)
  \/ left.t = right.t /\ left = right /\ left.s # "NaN"

Arg(args, i) == IF i <= Len(args) THEN args[i] ELSE Undefined

NoteHas(note, key) == \E i \in 1..Len(note) : Join(note[i].key) = key
NoteGet(note, key) == note[CHOOSE i \in 1..Len(note) : Join(note[i].key) = key].value

Max(a, b) == IF a >= b THEN a ELSE b

\* --------------------------------------------------------- the host objects
RECURSIVE evaluateExpressionNode(_, _)
RECURSIVE evaluate(_, _, _)
RECURSIVE formulaProxyGet(_, _)

\* The constructor property every host value inherits from its prototype.
InheritedConstructor(v) ==
  CASE v.t = "function" -> Fn("Function")
    [] v.t = "string" -> Fn("String")
    [] v.t = "number" -> Fn("Number")
    [] v.t = "boolean" -> Fn("Boolean")
    [] v.t = "date" -> Fn("Date")
    [] v.t = "regexp" -> Fn("RegExp")
    [] v.s = "tags" -> Fn("Array")
    [] OTHER -> Fn("Object")

\* Reflect.get(ensureTargetObject(objectValue), propertyKey) on the objects a
\* scope reaches: the formula proxy, the file object of createFileExpression,
\* the frontmatter, the tags array, Math, and the prototypes' constructor.
ReflectGet(objectValue, propertyKey, st) ==
  CASE IsNullish(objectValue) -> Throw("Cannot read properties of " \o objectValue.t, st)
    [] objectValue = Obj("formula") -> formulaProxyGet(propertyKey, st)
    [] objectValue = Obj("file") ->
    Return(CASE propertyKey = "file" -> Obj("file")
             [] propertyKey = "name" -> Str(st.file.name)
             [] propertyKey = "path" -> Str(st.file.relativePath)
             [] propertyKey = "properties" -> Obj("properties")
             [] propertyKey = "tags" -> Obj("tags")
             [] propertyKey = "hasTag" -> Fn("file.hasTag")
             [] propertyKey = "constructor" -> Fn("Object")
             [] OTHER -> Undefined, st)
    [] objectValue = Obj("note") /\ NoteHas(st.note, propertyKey) ->
         Return(NoteGet(st.note, propertyKey), st)
    [] objectValue = Obj("tags") ->
    Return(CASE propertyKey = "length" -> Num(Len(st.tags))
             [] propertyKey = "reverse" -> Fn("Array.prototype.reverse")
             [] propertyKey = "constructor" -> Fn("Array")
             [] \E i \in 1..Len(st.tags) : propertyKey = NumStr(i - 1) ->
                  Str(st.tags[CHOOSE i \in 1..Len(st.tags) : propertyKey = NumStr(i - 1)])
             [] OTHER -> Undefined, st)
    [] objectValue = Obj("Math") /\ propertyKey = "max" -> Return(Fn("Math.max"), st)
    [] objectValue.t = "regexp" /\ propertyKey = "test" ->
         Return(Fn("RegExp.prototype.test"), st)
    [] propertyKey = "constructor" -> Return(InheritedConstructor(objectValue), st)
    [] OTHER -> Return(Undefined, st)

\* RegExp.prototype.test for a pattern of plain characters without the flags
\* g and y: the text, lowered under the flag i, contains the pattern
RegExpTest(regexp, text) ==
  LET Contains(pattern, chars) ==
        \E k \in 1..(Len(chars) - Len(pattern) + 1) : StartsWith(chars, pattern, k)
  IN IF regexp.n = 1
     THEN Contains(LowerCase(Chars(regexp.s)), LowerCase(Chars(text)))
     ELSE Contains(Chars(regexp.s), Chars(text))

\* callable.apply(thisValue, args) for the functions a scope reaches: the
\* global functions today, now, duration, if and max, Math.max, Array.prototype.reverse
\* on the tags array, file.hasTag, and the Function constructor with the
\* functions it compiles.
HostApply(callable, thisValue, args, st) ==
  CASE callable = Fn("global.today") ->
         Return(DateV(st.clock - (st.clock % TicksPerDay)), st)
    [] callable = Fn("global.now") -> Return(DateV(st.clock), st)
    [] callable = Fn("global.duration") ->
         LET Parsed(r) == IF r.ok THEN Return(Num(r.total), st) ELSE Throw(r.err, st)
         IN IF Arg(args, 1).t # "string" THEN Throw("input.trim is not a function", st)
            ELSE Parsed(parseDuration(Chars(Arg(args, 1).s)))
    [] callable = Fn("global.if") ->
         IF Truthy(Arg(args, 1)) THEN Return(Arg(args, 2), st)
         ELSE Return(IF IsNullish(Arg(args, 3)) THEN Null ELSE Arg(args, 3), st)
    [] callable \in {Fn("global.max"), Fn("Math.max")} ->
         IF callable = Fn("global.max") /\ args = <<>>
           THEN Throw("At least one value is required.", st)
         ELSE IF \E i \in 1..Len(args) : args[i].t # "number" \/ args[i].s = "NaN"
           THEN IF callable = Fn("global.max")
                THEN Throw("All arguments must be numbers.", st) ELSE Return(NaN, st)
         ELSE IF args = <<>> THEN Return([t |-> "number", n |-> 0, s |-> "-Infinity"], st)
         ELSE Return(Num(CHOOSE m \in {args[i].n : i \in 1..Len(args)} :
                           \A i \in 1..Len(args) : m >= args[i].n), st)
    [] callable = Fn("Array.prototype.reverse") ->
         IF thisValue = Obj("tags")
         THEN Return(Obj("tags"), [st EXCEPT !.tags = Reverse(@)])
         ELSE Throw("Array.prototype.reverse called on a value of the model that is no array", st)
    [] callable = Fn("file.hasTag") ->
         Return(Bool(\E i \in 1..Len(args) :
                       args[i].t = "string" /\ args[i].s \in st.tagSet), st)
    [] callable = Fn("RegExp.prototype.test") ->
         IF thisValue.t = "regexp"
         THEN Return(Bool(RegExpTest(thisValue, ToStr(Arg(args, 1)))), st)
         ELSE Throw("RegExp.prototype.test requires that 'this' be an Object", st)
    [] callable = Fn("Function") ->
         Return(Fn("compiled"), [st EXCEPT !.codegen = TRUE])
    [] callable = Fn("compiled") -> Return(Undefined, st)
    [] OTHER -> Throw("host function outside the model: " \o callable.s, st)

\* ------------------------------------------------------------ the evaluator
\* The member's object value, key and value; the result's val is the value
\* and objectValue the receiver of a call.
resolveMemberExpression(node, st) ==
  LET WithProperty(object, property) ==
        IF ~property.ok THEN property @@ [objectValue |-> Undefined]
        ELSE ReflectGet(object.val, toPropertyKey(property.val), property.st)
               @@ [objectValue |-> object.val]
      WithObject(object) ==
        IF ~object.ok THEN [object EXCEPT !.val = Undefined] @@ [objectValue |-> Undefined]
        ELSE WithProperty(object,
                          IF node.computed
                          THEN evaluateExpressionNode(node.property, object.st)
                          ELSE Return(Str(node.property.name), object.st))
  IN WithObject(evaluateExpressionNode(node.object, st))

evaluateIdentifier(node, st) ==
  IF node.name \in DOMAIN st.scope THEN Return(st.scope[node.name], st)
  ELSE Throw("\"" \o node.name \o "\" is not defined", st)

\* the variant that takes the right operand for every falsy left one
evaluateNullishCoalescing_Falsy(left, node, st) ==
  IF Truthy(left) THEN Return(left, st)
  ELSE evaluateExpressionNode(node.right, st)

evaluateNullishCoalescing(left, node, st) ==
  IF ~IsNullish(left) THEN Return(left, st)
  ELSE evaluateExpressionNode(node.right, st)

evaluateBinaryExpression(node, st) ==
  LET WithRight(left, right) ==
        IF ~right.ok THEN right
        ELSE IF node.operator \in {"&&", "||"} THEN right
        ELSE CASE node.operator = "+" ->
                    Return(applyAddition(left.val, right.val), right.st)
               [] node.operator = "-" ->
                    Return(applySubtraction(left.val, right.val), right.st)
               [] node.operator = "==" ->
                    Return(Bool(LooseEquals(left.val, right.val)), right.st)
               [] node.operator = "!=" ->
                    Return(Bool(~LooseEquals(left.val, right.val)), right.st)
               [] OTHER ->
                    Throw("Unsupported binary operator \"" \o node.operator \o "\".",
                          right.st)
      WithLeft(left) ==
        CASE ~left.ok -> left
          [] node.operator = "&&" /\ ~Truthy(left.val) -> left
          [] node.operator = "||" /\ Truthy(left.val) -> left
          [] node.operator = "??" -> evaluateNullishCoalescing(left.val, node, left.st)
          [] OTHER -> WithRight(left, evaluateExpressionNode(node.right, left.st))
  IN WithLeft(evaluateExpressionNode(node.left, st))

\* the variant that evaluates both branches before it takes one
evaluateConditionalExpression_Eager(node, st) ==
  LET WithBranches(test, consequent, alternate) ==
        IF ~consequent.ok THEN consequent
        ELSE IF ~alternate.ok THEN alternate
        ELSE IF Truthy(test.val) THEN consequent ELSE alternate
      WithConsequent(test, consequent) ==
        WithBranches(test, consequent,
                     evaluateExpressionNode(node.alternate,
                                            IF consequent.ok THEN consequent.st ELSE st))
      WithTest(test) ==
        IF ~test.ok THEN test
        ELSE WithConsequent(test, evaluateExpressionNode(node.consequent, test.st))
  IN WithTest(evaluateExpressionNode(node.test, st))

evaluateConditionalExpression(node, st) ==
  LET WithTest(test) ==
        IF ~test.ok THEN test
        ELSE evaluateExpressionNode(
               IF Truthy(test.val) THEN node.consequent ELSE node.alternate, test.st)
  IN WithTest(evaluateExpressionNode(node.test, st))

\* node.arguments.map(arg => evaluateExpressionNode(arg, scope)), from
\* argument i on, with the values of the arguments before it
RECURSIVE evaluateArguments(_, _, _, _)
evaluateArguments(arguments, i, values, st) ==
  LET WithArgument(r) ==
        IF ~r.ok THEN r @@ [values |-> values]
        ELSE evaluateArguments(arguments, i + 1, Append(values, r.val), r.st)
  IN IF i > Len(arguments) THEN Return(Undefined, st) @@ [values |-> values]
     ELSE WithArgument(evaluateExpressionNode(arguments[i], st))

evaluateCallExpression(node, st) ==
  LET WithArguments(callee, args) ==
        IF ~args.ok THEN [ok |-> FALSE, val |-> Undefined, err |-> args.err, st |-> args.st]
        ELSE HostApply(callee.val, callee.objectValue, args.values, args.st)
      WithCallee(callee) ==
        IF ~callee.ok
          THEN [ok |-> FALSE, val |-> Undefined, err |-> callee.err, st |-> callee.st]
        ELSE IF callee.val.t # "function"
          THEN Throw("Attempted to call a non-function value.", callee.st)
        ELSE WithArguments(callee, evaluateArguments(node.arguments, 1, <<>>, callee.st))
  IN WithCallee(IF node.callee.type = "MemberExpression"
                THEN resolveMemberExpression(node.callee, st)
                ELSE evaluateExpressionNode(node.callee, st) @@ [objectValue |-> Undefined])

evaluateMemberAccess(node, st) ==
  LET Value(r) == [ok |-> r.ok, val |-> r.val, err |-> r.err, st |-> r.st]
  IN Value(resolveMemberExpression(node, st))

evaluateExpressionNode(node, st) ==
  CASE node.type = "BinaryExpression" -> evaluateBinaryExpression(node, st)
    [] node.type = "CallExpression" -> evaluateCallExpression(node, st)
    [] node.type = "ConditionalExpression" -> evaluateConditionalExpression(node, st)
    [] node.type = "Identifier" -> evaluateIdentifier(node, st)
    [] node.type = "Literal" -> Return(node.value, st)
    [] node.type = "MemberExpression" -> evaluateMemberAccess(node, st)
    [] OTHER -> Throw("Unsupported expression node \"" \o node.type \o "\".", st)

\* The evaluate closure of buildEvaluationState. A parse error is raised by
\* compileExpression, outside the try that adds the label.
evaluate(expression, label, st) ==
  LET Labelled(r) == IF r.ok THEN r ELSE Wrap("Failed to evaluate " \o label, r)
      Compiled(normalized, ast) ==
        IF ast.type = "ParseError"
        THEN Wrap("Failed to parse expression \"" \o normalized \o "\"",
                  Throw("jsep: parse error", st))
        ELSE Labelled(evaluateExpressionNode(
                        ast, [st EXCEPT !.compiled = @ \cup {normalized}]))
      Normalized(normalized) == Compiled(normalized, jsep(normalized))
  IN IF Trim(expression) = <<>> THEN Return(Undefined, st)
     ELSE Normalized(Join(normalizeExpressionSource(Trim(expression))))

\* the get trap without the test of the evaluating set
formulaProxyGet_Unguarded(propKey, st) ==
  LET onStack == propKey \in Range(st.stack)
      seen == IF onStack THEN [st EXCEPT !.reentered = @ \cup {propKey}] ELSE st
      quiet == [seen EXCEPT !.silent = IF onStack THEN @ \cup {propKey} ELSE @]
  IN
  CASE propKey \in DOMAIN st.formulaCache -> Return(st.formulaCache[propKey], quiet)
    [] propKey \notin DOMAIN st.formulas -> Return(Undefined, quiet)
    [] ~st.formulas[propKey].isString \/ Trim(st.formulas[propKey].chars) = <<>> ->
         Return(Undefined, [quiet EXCEPT !.formulaCache = Put(@, propKey, Undefined)])
    [] Len(st.stack) >= MaxDepth -> Return(Undefined, [quiet EXCEPT !.diverged = TRUE])
    [] OTHER ->
      LET Finally(r, finally) ==
            IF r.ok
            THEN Return(r.val, [finally EXCEPT !.formulaCache = Put(@, propKey, r.val),
                                               !.returned[propKey] = @ + 1])
            ELSE Wrap("Failed to evaluate formula \"" \o propKey \o "\"",
                      [r EXCEPT !.st = finally])
          Evaluated(r) ==
            Finally(r, [r.st EXCEPT !.evaluating = @ \ {propKey},
                                    !.stack = SubSeq(@, 1, Len(@) - 1)])
      IN Evaluated(evaluate(st.formulas[propKey].chars, "formula \"" \o propKey \o "\"",
                            [quiet EXCEPT !.evaluating = @ \cup {propKey},
                                          !.stack = Append(@, propKey),
                                          !.count[propKey] = @ + 1]))

\* the get trap storing undefined in the cache for the value it returns
formulaProxyGet_CachesUndefined(propKey, st) ==
  LET onStack == propKey \in Range(st.stack)
      seen == IF onStack THEN [st EXCEPT !.reentered = @ \cup {propKey}] ELSE st
      quiet == [seen EXCEPT !.silent = IF onStack THEN @ \cup {propKey} ELSE @]
  IN
  CASE propKey \in DOMAIN st.formulaCache -> Return(st.formulaCache[propKey], quiet)
    [] propKey \notin DOMAIN st.formulas -> Return(Undefined, quiet)
    [] propKey \in st.evaluating -> Throw(CircularMessage(propKey), seen)
    [] ~st.formulas[propKey].isString \/ Trim(st.formulas[propKey].chars) = <<>> ->
         Return(Undefined, [quiet EXCEPT !.formulaCache = Put(@, propKey, Undefined)])
    [] Len(st.stack) >= MaxDepth -> Return(Undefined, [quiet EXCEPT !.diverged = TRUE])
    [] OTHER ->
      LET Finally(r, finally) ==
            IF r.ok
            THEN Return(r.val, [finally EXCEPT !.formulaCache = Put(@, propKey, Undefined),
                                               !.returned[propKey] = @ + 1])
            ELSE Wrap("Failed to evaluate formula \"" \o propKey \o "\"",
                      [r EXCEPT !.st = finally])
          Evaluated(r) ==
            Finally(r, [r.st EXCEPT !.evaluating = @ \ {propKey},
                                    !.stack = SubSeq(@, 1, Len(@) - 1)])
      IN Evaluated(evaluate(st.formulas[propKey].chars, "formula \"" \o propKey \o "\"",
                            [quiet EXCEPT !.evaluating = @ \cup {propKey},
                                          !.stack = Append(@, propKey),
                                          !.count[propKey] = @ + 1]))

\* The get trap of formulaProxy. The observers: stack holds the formulas
\* whose body is running, count the number of times each body was started,
\* returned the number of times it returned a value,
\* reentered the formulas demanded while their body was running, silent those
\* of them whose access did not raise the circular-reference error, and
\* diverged is set when the nesting passes MaxDepth.
\* the get trap that removes the mark of a formula in progress only when
\* its body returned
formulaProxyGet_MarkKeptOnError(propKey, st) ==
  LET onStack == propKey \in Range(st.stack)
      seen == IF onStack THEN [st EXCEPT !.reentered = @ \cup {propKey}] ELSE st
      quiet == [seen EXCEPT !.silent = IF onStack THEN @ \cup {propKey} ELSE @]
  IN
  CASE propKey \in DOMAIN st.formulaCache -> Return(st.formulaCache[propKey], quiet)
    [] propKey \notin DOMAIN st.formulas -> Return(Undefined, quiet)
    [] propKey \in st.evaluating -> Throw(CircularMessage(propKey), seen)
    [] ~st.formulas[propKey].isString \/ Trim(st.formulas[propKey].chars) = <<>> ->
         Return(Undefined, [quiet EXCEPT !.formulaCache = Put(@, propKey, Undefined)])
    [] Len(st.stack) >= MaxDepth -> Return(Undefined, [quiet EXCEPT !.diverged = TRUE])
    [] OTHER ->
      LET Evaluated(r) ==
            IF r.ok
            THEN Return(r.val, [r.st EXCEPT !.formulaCache = Put(@, propKey, r.val),
                                            !.returned[propKey] = @ + 1,
                                            !.evaluating = @ \ {propKey},
                                            !.stack = SubSeq(@, 1, Len(@) - 1)])
            ELSE Wrap("Failed to evaluate formula \"" \o propKey \o "\"",
                      [r EXCEPT !.st.stack = SubSeq(@, 1, Len(@) - 1)])
      IN Evaluated(evaluate(st.formulas[propKey].chars, "formula \"" \o propKey \o "\"",
                            [quiet EXCEPT !.evaluating = @ \cup {propKey},
                                          !.stack = Append(@, propKey),
                                          !.count[propKey] = @ + 1]))

formulaProxyGet(propKey, st) ==
  LET onStack == propKey \in Range(st.stack)
      seen == IF onStack THEN [st EXCEPT !.reentered = @ \cup {propKey}] ELSE st
      quiet == [seen EXCEPT !.silent = IF onStack THEN @ \cup {propKey} ELSE @]
  IN
  CASE propKey \in DOMAIN st.formulaCache -> Return(st.formulaCache[propKey], quiet)
    [] propKey \notin DOMAIN st.formulas -> Return(Undefined, quiet)
    [] propKey \in st.evaluating -> Throw(CircularMessage(propKey), seen)
    [] ~st.formulas[propKey].isString \/ Trim(st.formulas[propKey].chars) = <<>> ->
         Return(Undefined, [quiet EXCEPT !.formulaCache = Put(@, propKey, Undefined)])
    [] Len(st.stack) >= MaxDepth -> Return(Undefined, [quiet EXCEPT !.diverged = TRUE])
    [] OTHER ->
      LET Finally(r, finally) ==
            IF r.ok
            THEN Return(r.val, [finally EXCEPT !.formulaCache = Put(@, propKey, r.val),
                                               !.returned[propKey] = @ + 1])
            ELSE Wrap("Failed to evaluate formula \"" \o propKey \o "\"",
                      [r EXCEPT !.st = finally])
          Evaluated(r) ==
            Finally(r, [r.st EXCEPT !.evaluating = @ \ {propKey},
                                    !.stack = SubSeq(@, 1, Len(@) - 1)])
      IN Evaluated(evaluate(st.formulas[propKey].chars, "formula \"" \o propKey \o "\"",
                            [quiet EXCEPT !.evaluating = @ \cup {propKey},
                                          !.stack = Append(@, propKey),
                                          !.count[propKey] = @ + 1]))

\* --------------------------------------------------------------- the filters
\* A filter node is [kind |-> "undefined"] (no filter), a string
\* [kind |-> "string", chars], an object [kind |-> "object", entries] whose
\* entries are its [key, value] pairs in order, or [kind |-> "other"] (a
\* number or an array), and null is [kind |-> "null"]. A group value is
\* [isArray, items].
NoFilter == [kind |-> "undefined"]
FilterString(chars) == [kind |-> "string", chars |-> chars]
FilterObject(entries) == [kind |-> "object", entries |-> entries]
Group(items) == [isArray |-> TRUE, items |-> items]
NotAGroup == [isArray |-> FALSE, items |-> <<>>]

HasKey(entries, key) == \E i \in 1..Len(entries) : entries[i].key = key
ValueOf(entries, key) == entries[CHOOSE i \in 1..Len(entries) : entries[i].key = key].value

\* the check of the keys accepting every key
filterExpressionsValid_Lenient(compound) == TRUE

filterExpressionsValid(compound) ==
  \A i \in 1..Len(compound) : compound[i].key \in {"and", "or", "not"}

RECURSIVE JoinWith(_, _)
JoinWith(strings, separator) ==
  IF strings = <<>> THEN ""
  ELSE IF Len(strings) = 1 THEN strings[1]
  ELSE strings[1] \o separator \o JoinWith(Tail(strings), separator)

RECURSIVE InvalidKeys(_)
InvalidKeys(compound) ==
  IF compound = <<>> THEN <<>>
  ELSE IF Head(compound).key \in {"and", "or", "not"} THEN InvalidKeys(Tail(compound))
  ELSE <<Head(compound).key>> \o InvalidKeys(Tail(compound))

evaluateFilterLiteral(literal, st, context) ==
  LET AsBoolean(result) ==
        IF result.ok THEN Return(Bool(Truthy(result.val)), result.st) ELSE result
      Trimmed(trimmed) ==
        IF trimmed = <<>> THEN Return(Bool(FALSE), st)
        ELSE AsBoolean(evaluate(trimmed,
                                context \o " expression \"" \o Join(trimmed) \o "\"", st))
  IN Trimmed(Trim(literal))

RECURSIVE evaluateFilterNode(_, _, _)

\* The loop over the entries of one group from entry i on: the result's val
\* is TRUE when some entry from i on evaluates to `stopOn` (the loop leaves
\* at the first such entry), FALSE when none does.
RECURSIVE GroupLoop(_, _, _, _, _)
GroupLoop(entries, i, stopOn, st, context) ==
  LET WithEntry(r) ==
        IF ~r.ok THEN r
        ELSE IF Truthy(r.val) = stopOn THEN Return(Bool(TRUE), r.st)
        ELSE GroupLoop(entries, i + 1, stopOn, r.st, context)
  IN IF i > Len(entries) THEN Return(Bool(FALSE), st)
     ELSE WithEntry(evaluateFilterNode(entries[i], st, context))

\* the `and` group: FALSE as soon as an entry does not match
AndGroup(compound, st, context) ==
  CASE ~HasKey(compound, "and") -> Return(Bool(TRUE), st)
    [] ~ValueOf(compound, "and").isArray ->
         Throw(context \o " \"and\" group must be an array.", st)
    [] OTHER ->
       LET Negated(r) == IF r.ok THEN Return(Bool(~Truthy(r.val)), r.st) ELSE r
       IN Negated(GroupLoop(ValueOf(compound, "and").items, 1, FALSE, st,
                            context \o " (and)"))

\* the `or` group taking an empty group for a match
OrGroup_EmptyMatches(compound, st, context) ==
  CASE ~HasKey(compound, "or") -> Return(Bool(TRUE), st)
    [] ~ValueOf(compound, "or").isArray ->
         Throw(context \o " \"or\" group must be an array.", st)
    [] ValueOf(compound, "or").items = <<>> -> Return(Bool(TRUE), st)
    [] OTHER -> GroupLoop(ValueOf(compound, "or").items, 1, TRUE, st, context \o " (or)")

\* the `or` group: FALSE when empty or when no entry matches
OrGroup(compound, st, context) ==
  CASE ~HasKey(compound, "or") -> Return(Bool(TRUE), st)
    [] ~ValueOf(compound, "or").isArray ->
         Throw(context \o " \"or\" group must be an array.", st)
    [] ValueOf(compound, "or").items = <<>> -> Return(Bool(FALSE), st)
    [] OTHER -> GroupLoop(ValueOf(compound, "or").items, 1, TRUE, st, context \o " (or)")

\* the `not` group taking a value that is not an array for an empty group
NotGroup_Unchecked(compound, st, context) ==
  IF ~HasKey(compound, "not") \/ ~ValueOf(compound, "not").isArray
  THEN Return(Bool(TRUE), st)
  ELSE LET Negated(r) == IF r.ok THEN Return(Bool(~Truthy(r.val)), r.st) ELSE r
       IN Negated(GroupLoop(ValueOf(compound, "not").items, 1, TRUE, st,
                            context \o " (not)"))

\* the `not` group: FALSE as soon as an entry matches
NotGroup(compound, st, context) ==
  CASE ~HasKey(compound, "not") -> Return(Bool(TRUE), st)
    [] ~ValueOf(compound, "not").isArray ->
         Throw(context \o " \"not\" group must be an array.", st)
    [] OTHER ->
       LET Negated(r) == IF r.ok THEN Return(Bool(~Truthy(r.val)), r.st) ELSE r
       IN Negated(GroupLoop(ValueOf(compound, "not").items, 1, TRUE, st,
                            context \o " (not)"))

evaluateFilterNode(node, st, context) ==
  LET AfterOr(o) ==
        IF ~o.ok \/ ~Truthy(o.val) THEN o ELSE NotGroup(node.entries, o.st, context)
      AfterAnd(a) ==
        IF ~a.ok \/ ~Truthy(a.val) THEN a
        ELSE AfterOr(OrGroup(node.entries, a.st, context))
  IN CASE node.kind = "string" -> evaluateFilterLiteral(node.chars, st, context)
       [] node.kind # "object" -> Throw("Filter entry must be a string or object.", st)
       [] ~filterExpressionsValid(node.entries) ->
            Throw("Filter contains unsupported keys: "
                    \o JoinWith(InvalidKeys(node.entries), ", "), st)
       [] OTHER -> AfterAnd(AndGroup(node.entries, st, context))

\* the variant that lets the error of the filter node pass as it is
matchesFilter_Unlabelled(filter, st, context) ==
  IF filter.kind \in {"undefined", "null"} THEN Return(Bool(TRUE), st)
  ELSE evaluateFilterNode(filter, st, context)

matchesFilter(filter, st, context) ==
  IF filter.kind \in {"undefined", "null"} THEN Return(Bool(TRUE), st)
  ELSE LET Processed(r) == IF r.ok THEN r ELSE Wrap("Failed to process " \o context, r)
       IN Processed(evaluateFilterNode(filter, st, context))

\* ----------------------------------------------------------- the materializer
\* A string-or-not field of the base file is [isString, value]; a limit is
\* [kind, tenths] with kind "absent", "number" (tenths of a unit, so 15 is
\* 1.5), "infinity", "nan" or "string"; an order is [isArray, items] of
\* [isString, chars]; properties and formulas are [present, entries].
Absent == [isString |-> FALSE, value |-> ""]
Text(value) == [isString |-> TRUE, value |-> value]

\* the column keys with the property map taken before the order
deriveColumnKeys_PropertiesFirst(viewOrder, propertyMap, formulas) ==
  LET ordered == IF viewOrder.isArray
                 THEN SelectSeq(viewOrder.items, LAMBDA entry : entry.isString)
                 ELSE <<>>
      propertyKeys == IF propertyMap.present
                      THEN [i \in 1..Len(propertyMap.entries) |-> propertyMap.entries[i].key]
                      ELSE <<>>
      formulaKeys == IF formulas.present
                     THEN [i \in 1..Len(formulas.entries) |->
                             <<"f", "o", "r", "m", "u", "l", "a", ".">> \o formulas.entries[i].key]
                     ELSE <<>>
  IN IF Len(propertyKeys) > 0 THEN propertyKeys
     ELSE IF Len(ordered) > 0 THEN [i \in 1..Len(ordered) |-> ordered[i].chars]
     ELSE formulaKeys

deriveColumnKeys(viewOrder, propertyMap, formulas) ==
  LET ordered == IF viewOrder.isArray
                 THEN SelectSeq(viewOrder.items, LAMBDA entry : entry.isString)
                 ELSE <<>>
      propertyKeys == IF propertyMap.present
                      THEN [i \in 1..Len(propertyMap.entries) |-> propertyMap.entries[i].key]
                      ELSE <<>>
      formulaKeys == IF formulas.present
                     THEN [i \in 1..Len(formulas.entries) |->
                             <<"f", "o", "r", "m", "u", "l", "a", ".">> \o formulas.entries[i].key]
                     ELSE <<>>
  IN IF Len(ordered) > 0 THEN [i \in 1..Len(ordered) |-> ordered[i].chars]
     ELSE IF Len(propertyKeys) > 0 THEN propertyKeys
     ELSE formulaKeys

\* the variant that names every column by its key
resolveDisplayName_RawKey(propertyKey, propertyMap) == Join(propertyKey)

resolveDisplayName(propertyKey, propertyMap) ==
  LET defined == propertyMap.present /\
                 \E i \in 1..Len(propertyMap.entries) : propertyMap.entries[i].key = propertyKey
      definition == propertyMap.entries[
                      CHOOSE i \in 1..Len(propertyMap.entries) :
                        propertyMap.entries[i].key = propertyKey]
  IN IF defined /\ definition.displayName.isString /\ definition.displayName.value # ""
     THEN definition.displayName.value
     ELSE Join(propertyKey)

\* views.find(view => typeof view.name === "string" && view.name === viewName)
\* as an index, 0 when there is none
FindView(views, viewName) ==
  IF \E i \in 1..Len(views) : views[i].name.isString /\ views[i].name.value = viewName
  THEN CHOOSE i \in 1..Len(views) :
         /\ views[i].name.isString /\ views[i].name.value = viewName
         /\ \A j \in 1..(i - 1) : ~(views[j].name.isString /\ views[j].name.value = viewName)
  ELSE 0

\* materialize's selectedView as an index: the view found, else the first
\* view; 0 when the base has no view
SelectView(views, viewName) ==
  IF FindView(views, viewName) # 0 THEN FindView(views, viewName)
  ELSE IF Len(views) > 0 THEN 1 ELSE 0

\* the limit rounded to the nearest integer
LimitOf_Rounded(limitValue) ==
  IF limitValue.kind = "number" /\ limitValue.tenths > 0
  THEN (limitValue.tenths + 5) \div 10 ELSE 0 - 1

\* Math.floor of a positive finite limit, 0 - 1 for `undefined`
LimitOf(limitValue) ==
  IF limitValue.kind = "number" /\ limitValue.tenths > 0
  THEN limitValue.tenths \div 10 ELSE 0 - 1

\* matches.slice(0, limit), or matches
LimitedMatches(found, limit) ==
  IF limit >= 0 THEN SubSeq(found, 1, IF limit < Len(found) THEN limit ELSE Len(found))
  ELSE found

RECURSIVE FormatTags(_)
FormatTags(items) ==
  IF items = <<>> THEN ""
  ELSE IF Len(items) = 1 THEN items[1]
  ELSE items[1] \o ", " \o FormatTags(Tail(items))

\* formatValue on the values of the model; the tags array is the one array
formatValue(value, st) ==
  CASE IsNullish(value) -> ""
    [] value.t = "string" -> value.s
    [] value.t = "number" -> ToStr(value)
    [] value.t = "boolean" -> IF value.n = 1 THEN "true" ELSE "false"
    [] value.t = "date" -> ToStr(value)
    [] value = Obj("tags") -> FormatTags(st.tags)
    [] OTHER -> ToStr(value)

FormulaMap(formulas) ==
  IF formulas.present
  THEN [k \in {Join(formulas.entries[i].key) : i \in 1..Len(formulas.entries)} |->
          formulas.entries[CHOOSE i \in 1..Len(formulas.entries) :
                             Join(formulas.entries[i].key) = k].value]
  ELSE <<>>

FormulaNames == {"a", "b"}

\* buildEvaluationState(file, formulas): what the closures capture, with the
\* observers of formulaProxyGet
NewEvaluation(file, formulas) ==
  [built |-> TRUE,
   scope |-> BuildScope(file.note),
   formulas |-> FormulaMap(formulas),
   formulaCache |-> <<>>,
   evaluating |-> {},
   compiled |-> {},
   tagSet |-> Range(file.tags),
   count |-> [k \in FormulaNames |-> 0],
   returned |-> [k \in FormulaNames |-> 0],
   stack |-> <<>>,
   reentered |-> {},
   silent |-> {},
   diverged |-> FALSE,
   codegen |-> FALSE]

NoEvaluation ==
  [built |-> FALSE, scope |-> <<>>, formulas |-> <<>>, formulaCache |-> <<>>,
   evaluating |-> {}, compiled |-> {}, tagSet |-> {},
   count |-> [k \in FormulaNames |-> 0], returned |-> [k \in FormulaNames |-> 0],
   stack |-> <<>>, reentered |-> {},
   silent |-> {}, diverged |-> FALSE, codegen |-> FALSE]

EvaluationFields == DOMAIN NoEvaluation

\* ------------------------------------------------------------------- inputs
Body(chars) == [isString |-> TRUE, chars |-> chars]
NonStringBody == [isString |-> FALSE, chars |-> <<>>]

NoFormulas == [present |-> FALSE, entries |-> <<>>]
Formulas(entries) == [present |-> TRUE, entries |-> entries]

\* every formula map over the names a and b
FormulaInputs ==
  LET bodies ==
        {Body(Src.One), Body(Src.APlus1), Body(Src.BPlus1), Body(Src.Undefined),
         Body(Src.Blank), Body(Src.Missing), Body(Src.GuardA), Body(Src.CondB),
         NonStringBody}
  IN {NoFormulas}
       \cup {Formulas(<<[key |-> <<"a">>, value |-> x]>>) : x \in bodies}
       \cup {Formulas(<<[key |-> <<"b">>, value |-> x]>>) : x \in bodies}
       \cup {Formulas(<<[key |-> <<"a">>, value |-> x], [key |-> <<"b">>, value |-> y]>>) :
               x \in bodies, y \in bodies}

NoProperties == [present |-> FALSE, entries |-> <<>>]
Properties(entries) == [present |-> TRUE, entries |-> entries]

NoOrder == [isArray |-> FALSE, items |-> <<>>]
Column(chars) == [isString |-> TRUE, chars |-> chars]
NotAColumn == [isString |-> FALSE, chars |-> <<>>]
Order(items) == [isArray |-> TRUE, items |-> items]

NoLimit == [kind |-> "absent", tenths |-> 0]
Limit(tenths) == [kind |-> "number", tenths |-> tenths]

View(name, limit, filters, order) ==
  [name |-> name, limit |-> limit, filters |-> filters, order |-> order]

\* file i of the vault
FileN(i) ==
  [relativePath |-> "n" \o NumStr(i) \o ".md",
   name |-> "n" \o NumStr(i),
   note |-> <<[key |-> Src.Status, value |-> IF i % 2 = 1 THEN Str("x") ELSE Str("y")]>>,
   tags |-> IF i % 2 = 1 THEN <<"a", "b">> ELSE <<"b">>]

Vault == [i \in 1..MaxFiles |-> FileN(i)]

\* ------------------------------------------------------------------- state
VARIABLES
  base,              \* the parsed base file: filters, formulas, properties, views
  viewArg,           \* the --view argument
  cli,               \* the rest of the command line and what the host answers
  vault,             \* the files of the vault, in iteration order
  clock,             \* the host clock
  pc,                \* the position of the run
  mainViewIndex,     \* main: selectedViewIndex (1-based)
  selectedViewName,  \* main: selectedViewName
  viewIndex,         \* materialize: the selected view (1-based), 0 for none
  columnKeys,        \* materialize: columnKeys
  rows,              \* materialize: rows
  matches,           \* materialize: the files of matches, as vault indices
  limitedMatches,    \* materialize: limitedMatches
  i,                 \* the index of the current file or retained match
  row,               \* materialize: the row being built
  evaluations,       \* the evaluation state built for each file
  thrown,            \* the cause chain of the error the run raised
  stdout,            \* what was written to standard output
  stderr,            \* what was written to the diagnostic stream
  exitCode,          \* the exit code, 0 - 1 while running
  probe,             \* the expression a caller of the library evaluates
  results            \* what evaluate gave that caller, for each of its scopes

vars ==
  <<base, viewArg, cli, vault, clock, pc, mainViewIndex, selectedViewName, viewIndex,
    columnKeys, rows, matches, limitedMatches, i, row, evaluations, thrown,
    stdout, stderr, exitCode, probe, results>>

inputs == <<base, viewArg, cli>>
api == <<probe, results>>
locals == <<viewIndex, columnKeys, rows, matches, limitedMatches, i, row>>
output == <<stdout, stderr, exitCode>>

\* the evaluation state of file f as the evaluator threads it
StateOf(evaluation, f) ==
  evaluation @@ [file |-> vault[f], note |-> vault[f].note, tags |-> vault[f].tags,
                 clock |-> clock]

Persist(st) == [k \in EvaluationFields |-> st[k]]

SelectedView == base.views[viewIndex]

\* ---------------------------------------------------------- initial states
\* Runs that exercise the formulas: every formula map, demanded by the
\* columns of the view and by a base filter.
FormulaRuns ==
  LET orders ==
        {NoOrder,
         Order(<<Column(Src.FormulaA), Column(Src.FormulaB)>>),
         Order(<<Column(Src.FormulaB), Column(Src.FormulaA), Column(Src.FormulaB)>>)}
      filters ==
        {NoFilter,
         FilterObject(<<[key |-> "or", value |-> Group(<<FilterString(Src.FormulaA),
                                                          FilterString(Src.True)>>)]>>)}
  IN /\ base \in [filters : filters, formulas : FormulaInputs,
                  properties : {NoProperties},
                  views : {<<View(Text("Main"), NoLimit, NoFilter, order)>> :
                             order \in orders}]
     /\ viewArg = Absent
     /\ vault = Vault
     /\ clock = 0

\* Runs that exercise the host: columns that mutate the tags, read the clock,
\* call global functions or reach for the Function constructor, started at
\* any reading of the clock.
HostRuns ==
  LET orders ==
        {Order(<<Column(Src.Reverse), Column(Src.Tag0)>>),
         Order(<<Column(Src.Now), Column(Src.Today)>>),
         Order(<<Column(Src.If), Column(Src.FileName)>>),
         Order(<<Column(Src.MathMax), Column(Src.Escape)>>),
         Order(<<Column(Src.Status), Column(Src.Bad)>>)}
  IN /\ base \in [filters : {NoFilter}, formulas : {NoFormulas},
                  properties : {NoProperties},
                  views : {<<View(Text("Main"), NoLimit, NoFilter, order)>> :
                             order \in orders}]
     /\ viewArg = Absent
     /\ vault = Vault
     /\ clock \in 0..MaxClock

\* Runs that exercise the view selection.
ViewRuns ==
  LET names == {Absent, Text(""), Text("A"), Text("Untitled view")}
      named(name) == View(name, NoLimit, NoFilter, Order(<<Column(Src.FileName)>>))
      lists == {<<>>} \cup {<<named(m)>> : m \in names}
                      \cup {<<named(m), named(n)>> : m \in names, n \in names}
  IN /\ base \in [filters : {NoFilter}, formulas : {NoFormulas},
                  properties : {NoProperties}, views : lists]
     /\ viewArg \in {Absent, Text(""), Text("A"), Text("Untitled view"), Text("B")}
     /\ vault = Vault
     /\ clock = 0

\* Runs that exercise the limit.
LimitRuns ==
  LET limits ==
        {NoLimit, [kind |-> "infinity", tenths |-> 0], [kind |-> "nan", tenths |-> 0],
         [kind |-> "string", tenths |-> 20]}
          \cup {Limit(n) : n \in {0 - 10, 0, 5, 10, 15, 20, 10 * MaxFiles, 10 * MaxFiles + 10}}
      filters == {NoFilter, FilterString(Src.StatusX)}
  IN /\ base \in [filters : filters, formulas : {NoFormulas},
                  properties : {NoProperties},
                  views : {<<View(Text("Main"), limit, filter,
                                  Order(<<Column(Src.FileName)>>))>> :
                             limit \in limits, filter \in filters}]
     /\ viewArg = Absent
     /\ vault = Vault
     /\ clock = 0

\* Runs that exercise the derivation of the column keys.
ColumnRuns ==
  LET orders ==
        {NoOrder, Order(<<>>), Order(<<NotAColumn>>),
         Order(<<Column(Src.FileName)>>),
         Order(<<Column(Src.Status), Column(Src.FileName)>>),
         Order(<<NotAColumn, Column(Src.Status)>>)}
      properties ==
        {NoProperties, Properties(<<>>),
         Properties(<<[key |-> Src.Status, displayName |-> Text("Status")]>>),
         Properties(<<[key |-> Src.FileName, displayName |-> Absent],
                      [key |-> Src.Status, displayName |-> Text("")]>>)}
      formulas ==
        {NoFormulas, Formulas(<<>>),
         Formulas(<<[key |-> <<"b">>, value |-> Body(Src.One)],
                    [key |-> <<"a">>, value |-> Body(Src.BPlus1)]>>)}
  IN /\ base \in [filters : {NoFilter}, formulas : formulas, properties : properties,
                  views : {<<View(Text("Main"), NoLimit, NoFilter, order)>> :
                             order \in orders}]
     /\ viewArg = Absent
     /\ vault = Vault
     /\ clock = 0

\* Runs that exercise the filter trees: compound nodes with the keys and, or
\* and not over leaves that match, do not match or raise, and compound nodes
\* nested in them.
NoGroup == [absent |-> TRUE]
Compound(and, or, not) ==
  LET entry(key, group) ==
        IF group = NoGroup THEN <<>> ELSE <<[key |-> key, value |-> group]>>
  IN FilterObject(entry("and", and) \o entry("or", or) \o entry("not", not))

Yes == FilterString(Src.True)
No == FilterString(Src.False)
Raises == FilterString(Src.Missing)

NestedMembers ==
  {FilterString(Src.Blank),
   Compound(NoGroup, NoGroup, NoGroup),
   Compound(Group(<<Yes, No>>), Group(<<>>), NoGroup),
   Compound(NoGroup, Group(<<No, Yes>>), Group(<<No>>)),
   Compound(Group(<<Yes>>), Group(<<Yes>>), Group(<<Raises>>))}

FilterTrees ==
  LET leafGroups ==
        {NoGroup, Group(<<>>)}
          \cup {Group(<<m>>) : m \in {Yes, No, Raises}}
          \cup {Group(<<Yes, Yes>>), Group(<<Yes, No>>), Group(<<No, Yes>>),
                Group(<<No, No>>), Group(<<No, Raises>>), Group(<<Yes, Raises>>)}
      nestedGroups == {NoGroup} \cup {Group(<<m>>) : m \in NestedMembers}
  IN [flat |-> {Compound(and, or, not) :
                  and \in leafGroups, or \in leafGroups, not \in leafGroups},
      nested |-> {Compound(and, or, not) :
                    and \in nestedGroups, or \in nestedGroups, not \in nestedGroups},
      simple |-> {NoFilter, [kind |-> "null"], Yes, No, FilterString(Src.Blank)}]

FilterRuns ==
  /\ \/ base \in [filters : FilterTrees.simple \cup FilterTrees.flat \cup FilterTrees.nested,
                  formulas : {NoFormulas}, properties : {NoProperties},
                  views : {<<View(Text("Main"), NoLimit, NoFilter,
                                  Order(<<Column(Src.FileName)>>))>>}]
     \/ base \in [filters : {NoFilter}, formulas : {NoFormulas}, properties : {NoProperties},
                  views : {<<View(Text("Main"), NoLimit, filters,
                                  Order(<<Column(Src.FileName)>>))>> :
                             filters \in FilterTrees.nested}]
  /\ viewArg = Absent
  /\ vault = Vault
  /\ clock = 0

\* Runs that exercise the scope: the frontmatter of the first file has one
\* key, drawn from names the scope binds itself and names it does not.
ScopeRuns ==
  LET keys ==
        {Src.Status, Src.Math,
         <<"_", "i", "f">>,
         <<"_", "f", "i", "l", "e", "F", "n">>,
         <<"n", "o", "w">>,
         <<"i", "f">>,
         <<"f", "i", "l", "e">>,
         <<"e", "v", "a", "l">>,
         <<"f", "o", "r", "m", "u", "l", "a">>,
         <<"m", "y", "-", "k", "e", "y">>,
         <<"9", "x">>,
         <<"D", "a", "t", "e">>,
         <<"n", "o", "t", "e">>,
         <<"t", "i", "t", "l", "e">>}
      orders ==
        {Order(<<Column(Src.FileName)>>), Order(<<Column(Src.MathMax)>>),
         Order(<<Column(Src.If)>>), Order(<<Column(Src.Status)>>),
         Order(<<Column(Src.Math)>>)}
  IN /\ base \in [filters : {NoFilter}, formulas : {NoFormulas},
                  properties : {NoProperties},
                  views : {<<View(Text("Main"), NoLimit, NoFilter, order)>> :
                             order \in orders}]
     /\ viewArg = Absent
     /\ vault \in {[Vault EXCEPT ![1].note = <<[key |-> k, value |-> Str("v")]>>] :
                     k \in keys}
     /\ clock = 0

\* Runs that exercise the shape errors of filters: compound nodes with keys
\* other than and, or, not, and groups that are not arrays, at the top of the
\* base filter or of the view filter and below it.
Unsupported(keys) ==
  FilterObject([n \in 1..Len(keys) |-> [key |-> keys[n], value |-> Group(<<Yes>>)]])

ShapeRuns ==
  LET foo == Unsupported(<<"foo">>)
      groups == {NoGroup, NotAGroup, Group(<<>>), Group(<<Yes>>), Group(<<No>>),
                 Group(<<foo>>), Group(<<Yes, foo>>), Group(<<No, foo>>)}
      below == {Compound(NotAGroup, NoGroup, NoGroup), Compound(NoGroup, NotAGroup, NoGroup),
                Compound(Group(<<foo>>), NoGroup, NoGroup),
                Compound(Group(<<No>>), Group(<<foo>>), NotAGroup)}
      trees == {Compound(and, or, not) : and \in groups, or \in groups, not \in groups}
                 \cup {Compound(Group(<<Yes, m>>), NoGroup, NoGroup) : m \in below}
                 \cup {Compound(NoGroup, Group(<<No, m>>), Group(<<Yes>>)) : m \in below}
                 \cup {foo, Unsupported(<<"and", "foo", "or", "bar">>),
                       [kind |-> "other"]}
      view(filters) == View(Text("Main"), NoLimit, filters, Order(<<Column(Src.FileName)>>))
  IN /\ \/ base \in [filters : trees, formulas : {NoFormulas}, properties : {NoProperties},
                     views : {<<view(NoFilter)>>}]
        \/ base \in [filters : {NoFilter}, formulas : {NoFormulas},
                     properties : {NoProperties},
                     views : {<<view(filters)>> : filters \in trees}]
     /\ viewArg = Absent
     /\ vault = Vault
     /\ clock = 0

\* Runs that exercise the memo tables of the files: formulas whose value
\* differs from file to file, demanded by filters and columns, with the vault
\* walked in either order.
MemoRuns ==
  LET a(body) == [key |-> <<"a">>, value |-> Body(body)]
      b == [key |-> <<"b">>, value |-> Body(Src.FormulaA)]
      filters == {NoFilter, FilterString(Src.FormulaA), FilterString(Src.FormulaB)}
      orders == {Order(<<Column(Src.FormulaA)>>),
                 Order(<<Column(Src.FormulaB), Column(Src.FormulaA)>>)}
  IN /\ base \in [filters : filters,
                  formulas : {Formulas(<<a(body)>>) : body \in {Src.FileName, Src.Status}}
                               \cup {Formulas(<<a(body), b>>) :
                                       body \in {Src.FileName, Src.Status}},
                  properties : {NoProperties},
                  views : {<<View(Text("Main"), NoLimit, filter, order)>> :
                             filter \in filters, order \in orders}]
     /\ viewArg = Absent
     /\ vault \in {Vault, Reverse(Vault)}
     /\ clock = 0

\* Runs that exercise the order of the steps of materialize: a base filter
\* that rejects or raises on the file whose status is not x, a view filter
\* that reads a formula or raises, on every file or on that file, a column
\* that raises on that file, and a limit that cuts off the second match,
\* with the vault walked in either order.
OrderRuns ==
  LET guarded == FilterString(Src.XOrMissing)
      baseFilters == {NoFilter, FilterString(Src.StatusX), guarded}
      viewFilters == {NoFilter, FilterString(Src.FormulaA), guarded, FilterString(Src.Missing)}
      orders == {Order(<<Column(Src.FileName)>>),
                 Order(<<Column(Src.XOrMissing), Column(Src.FormulaA)>>)}
  IN /\ base \in [filters : baseFilters,
                  formulas : {Formulas(<<[key |-> <<"a">>, value |-> Body(Src.Status)]>>)},
                  properties : {NoProperties},
                  views : {<<View(Text("Main"), limit, filter, order)>> :
                             limit \in {NoLimit, Limit(10)}, filter \in viewFilters,
                             order \in orders}]
     /\ viewArg = Absent
     /\ vault \in {Vault, Reverse(Vault)}
     /\ clock = 0

\* Runs that exercise the command line and the host: --help, the base path,
\* --vault given, empty or omitted, the vault found above the base file, not
\* found or not readable, the base file read and parsed or not, and the walk
\* of the vault.
CliRuns ==
  LET view(column) == View(Text("Main"), NoLimit, NoFilter, Order(<<Column(column)>>))
  IN /\ base \in [filters : {NoFilter}, formulas : {NoFormulas}, properties : {NoProperties},
                  views : {<<>>, <<view(Src.FileName)>>, <<view(Src.Missing)>>}]
     /\ viewArg \in {Absent, Text("Main"), Text("B")}
     /\ cli \in [help : BOOLEAN,
                 basePathArg : {Absent, Text("a.base")},
                 vault : {Absent, Text(""), Text("vault")},
                 inferredVaultPath : {"found", "none", "denied"},
                 baseFile : {"ok", "unreadable", "yaml", "not-object"},
                 walkVault : {"ok", "error"}]
     /\ vault = Vault
     /\ clock = 0

\* the state of a run before main starts
Start ==
  /\ pc = "args"
  /\ mainViewIndex = 0
  /\ selectedViewName = ""
  /\ viewIndex = 0
  /\ columnKeys = <<>>
  /\ rows = <<>>
  /\ matches = <<>>
  /\ limitedMatches = <<>>
  /\ i = 0
  /\ row = <<>>
  /\ evaluations = [f \in 1..MaxFiles |-> NoEvaluation]
  /\ thrown = <<>>
  /\ stdout = <<>>
  /\ stderr = <<>>
  /\ exitCode = 0 - 1
  /\ probe = <<>>
  /\ results = <<>>

Init ==
  /\ \/ /\ FormulaRuns \/ HostRuns \/ ViewRuns \/ LimitRuns \/ ColumnRuns \/ FilterRuns
             \/ ScopeRuns \/ MemoRuns \/ ShapeRuns \/ OrderRuns
        /\ cli = [help |-> FALSE, basePathArg |-> Text("a.base"), vault |-> Text("vault"),
                  inferredVaultPath |-> "none", baseFile |-> "ok", walkVault |-> "ok"]
     \/ CliRuns
  /\ Start

\* ------------------------------------------------------------------ actions
\* fail(message) that reports the message and lets main return
Fail_Returning(message) ==
  /\ stderr' = Append(stderr, message)
  /\ exitCode' = 0
  /\ pc' = "done"

\* fail(message): the message on the diagnostic stream, exit code 1
Fail(message) ==
  /\ stderr' = Append(stderr, message)
  /\ exitCode' = 1
  /\ pc' = "failed"

\* an error raised by materialize is not caught by main: the runtime reports
\* it on the diagnostic stream and exits with code 1
Uncaught(error) ==
  /\ thrown' = error
  /\ stderr' = Append(stderr, "error: Uncaught (in promise) Error: " \o error[1])
  /\ exitCode' = 1
  /\ pc' = "failed"

\* main, from the command line to the vault path: --help, the base path
\* argument and resolveVaultPath, which reports what it infers on the
\* diagnostic stream when --vault is not given
Arguments ==
  /\ pc = "args"
  /\ LET explicitVaultPath == cli.vault.isString /\ cli.vault.value # ""
         basePath == cli.basePathArg.value
         inferred == IF cli.inferredVaultPath = "found" THEN "/vault" ELSE "undefined"
         looked == <<"CWD /cwd", "Base Path " \o basePath>>
         reported == Append(looked, "Inferred Vault Path " \o inferred)
     IN IF cli.help
        THEN /\ stdout' = <<"Usage: materialize-base <base-path> [--view=<view-name>] "
                              \o "[--vault=<path>]">>
             /\ exitCode' = 0
             /\ pc' = "done"
             /\ UNCHANGED stderr
        ELSE /\ UNCHANGED stdout
             /\ IF ~cli.basePathArg.isString \/ basePath = ""
                  THEN Fail("Missing required base-path argument.")
                ELSE IF explicitVaultPath
                  THEN pc' = "main" /\ UNCHANGED <<stderr, exitCode>>
                ELSE IF cli.inferredVaultPath = "found"
                  THEN /\ stderr' = stderr \o reported
                       /\ pc' = "main"
                       /\ UNCHANGED exitCode
                \* fail(error.message), after what resolveVaultPath wrote
                ELSE /\ stderr' =
                          IF cli.inferredVaultPath = "denied"
                          THEN stderr \o Append(looked, "Permission denied (os error 13)")
                          ELSE stderr \o Append(reported,
                                 "Unable to determine vault path. Provide --vault or place "
                                   \o "the base within an Obsidian vault (with a .obsidian "
                                   \o "directory).")
                     /\ exitCode' = 1
                     /\ pc' = "failed"
  /\ UNCHANGED <<api, inputs, vault, clock, mainViewIndex, selectedViewName, locals,
                 evaluations, thrown>>

\* main, from parseBaseFile to the call of materialize: the base file is read
\* and parsed, the view selected and the vault walked
Main ==
  /\ pc = "main"
  /\ LET originalViews == base.views
         given == viewArg.isString /\ viewArg.value # ""
         index == IF given THEN FindView(originalViews, viewArg.value) ELSE 1
         failed(message) == /\ Fail(message)
                            /\ UNCHANGED <<mainViewIndex, selectedViewName, thrown>>
     IN IF cli.baseFile = "unreadable"
          THEN failed("Unable to read base file at " \o cli.basePathArg.value
                        \o "\n\nNo such file or directory (os error 2)")
        ELSE IF cli.baseFile = "yaml"
          THEN failed("Failed to parse base file as YAML.\n\nunexpected end of the stream")
        ELSE IF cli.baseFile = "not-object"
          THEN failed("Failed to parse base file as YAML."
                        \o "\n\nParsed base file is not a valid object.")
        ELSE IF Len(originalViews) = 0
          THEN failed("Base file does not define any views.")
        ELSE IF index = 0
          THEN failed("View \"" \o viewArg.value \o "\" not found in base file.")
        ELSE /\ mainViewIndex' = index
             /\ selectedViewName' =
                  IF originalViews[index].name.isString /\ originalViews[index].name.value # ""
                  THEN originalViews[index].name.value ELSE "Untitled view"
             /\ IF cli.walkVault = "error"
                THEN Uncaught(<<"No such file or directory (os error 2): readdir '"
                                  \o (IF cli.vault.isString /\ cli.vault.value # ""
                                      THEN cli.vault.value ELSE "/vault")
                                  \o "'">>)
                ELSE pc' = "select" /\ UNCHANGED <<stderr, exitCode, thrown>>
  /\ UNCHANGED <<api, inputs, vault, clock, locals, evaluations, stdout>>

\* materialize, from its entry to the header row
Select ==
  /\ pc = "select"
  /\ LET selected == SelectView(base.views, selectedViewName)
         keys == deriveColumnKeys(base.views[selected].order, base.properties,
                                  base.formulas)
     IN /\ viewIndex' = selected
        /\ IF selected = 0 \/ keys = <<>>
           THEN /\ pc' = "render"
                /\ UNCHANGED <<columnKeys, rows, i>>
           ELSE /\ columnKeys' = keys
                /\ rows' = <<[k \in 1..Len(keys) |->
                               resolveDisplayName(keys[k], base.properties)]>>
                /\ i' = 1
                /\ pc' = IF Len(vault) = 0 THEN "limit" ELSE "base"
  /\ UNCHANGED <<api, inputs, vault, clock, mainViewIndex, selectedViewName, matches,
                 limitedMatches, row, evaluations, thrown, output>>

\* the loop over the files leaves file i
NextFile ==
  /\ i' = i + 1
  /\ pc' = IF i + 1 > Len(vault) THEN "limit" ELSE "base"

\* the filter loop with one memo table for all files: the evaluation state of
\* file i starts from the table left by the file before it
FilterBase_SharedCache ==
  /\ pc = "base"
  /\ \E st \in {[StateOf(NewEvaluation(vault[i], base.formulas), i) EXCEPT
                   !.formulaCache = IF i > 1 THEN evaluations[i - 1].formulaCache ELSE @]} :
     \E r \in {matchesFilter(base.filters, st,
                              "base filters for file \"" \o vault[i].relativePath \o "\"")} :
        /\ evaluations' = [evaluations EXCEPT ![i] = Persist(r.st)]
        /\ vault' = [vault EXCEPT ![i].tags = r.st.tags]
        /\ IF ~r.ok THEN Uncaught(r.err) /\ UNCHANGED i
           ELSE /\ IF Truthy(r.val) THEN pc' = "view" /\ UNCHANGED i ELSE NextFile
                /\ UNCHANGED <<thrown, stderr, exitCode>>
  /\ UNCHANGED <<api, inputs, clock, mainViewIndex, selectedViewName, viewIndex, columnKeys,
                 rows, matches, limitedMatches, row, stdout>>

\* the filter loop that evaluates the view filter whatever the base filter
\* returned
FilterBase_ThenAlwaysView ==
  /\ pc = "base"
  /\ \E st \in {StateOf(NewEvaluation(vault[i], base.formulas), i)} :
     \E r \in {matchesFilter(base.filters, st,
                              "base filters for file \"" \o vault[i].relativePath \o "\"")} :
        /\ evaluations' = [evaluations EXCEPT ![i] = Persist(r.st)]
        /\ vault' = [vault EXCEPT ![i].tags = r.st.tags]
        /\ IF ~r.ok THEN Uncaught(r.err) /\ UNCHANGED i
           ELSE /\ pc' = "view" /\ UNCHANGED i
                /\ UNCHANGED <<thrown, stderr, exitCode>>
  /\ UNCHANGED <<api, inputs, clock, mainViewIndex, selectedViewName, viewIndex, columnKeys,
                 rows, matches, limitedMatches, row, stdout>>

\* the filter loop on file i: its evaluation state is built and the base
\* filter evaluated
FilterBase ==
  /\ pc = "base"
  /\ \E st \in {StateOf(NewEvaluation(vault[i], base.formulas), i)} :
     \E r \in {matchesFilter(base.filters, st,
                              "base filters for file \"" \o vault[i].relativePath \o "\"")} :
        /\ evaluations' = [evaluations EXCEPT ![i] = Persist(r.st)]
        /\ vault' = [vault EXCEPT ![i].tags = r.st.tags]
        /\ IF ~r.ok THEN Uncaught(r.err) /\ UNCHANGED i
           ELSE /\ IF Truthy(r.val) THEN pc' = "view" /\ UNCHANGED i ELSE NextFile
                /\ UNCHANGED <<thrown, stderr, exitCode>>
  /\ UNCHANGED <<api, inputs, clock, mainViewIndex, selectedViewName, viewIndex, columnKeys,
                 rows, matches, limitedMatches, row, stdout>>

\* the filter loop on file i, which passed the base filter: the view filter
FilterView ==
  /\ pc = "view"
  /\ \E r \in {matchesFilter(
                 SelectedView.filters, StateOf(evaluations[i], i),
                 "view \""
                   \o (IF SelectedView.name.isString THEN SelectedView.name.value
                       ELSE selectedViewName)
                   \o "\" filters for file \"" \o vault[i].relativePath \o "\"")} :
        /\ evaluations' = [evaluations EXCEPT ![i] = Persist(r.st)]
        /\ vault' = [vault EXCEPT ![i].tags = r.st.tags]
        /\ IF ~r.ok THEN Uncaught(r.err) /\ UNCHANGED <<i, matches>>
           ELSE /\ matches' = IF Truthy(r.val) THEN Append(matches, i) ELSE matches
                /\ NextFile
                /\ UNCHANGED <<thrown, stderr, exitCode>>
  /\ UNCHANGED <<api, inputs, clock, mainViewIndex, selectedViewName, viewIndex, columnKeys,
                 rows, limitedMatches, row, stdout>>

\* the step that lets the row loop run over all the matches
ApplyLimit_KeepsAll ==
  /\ pc = "limit"
  /\ limitedMatches' = matches
  /\ i' = 1
  /\ row' = <<>>
  /\ pc' = IF limitedMatches' = <<>> THEN "render" ELSE "column"
  /\ UNCHANGED <<api, inputs, vault, clock, mainViewIndex, selectedViewName, viewIndex,
                 columnKeys, rows, matches, evaluations, thrown, output>>

\* the limit of the view is applied to the matches
ApplyLimit ==
  /\ pc = "limit"
  /\ limitedMatches' = LimitedMatches(matches, LimitOf(SelectedView.limit))
  /\ i' = 1
  /\ row' = <<>>
  /\ pc' = IF limitedMatches' = <<>> THEN "render" ELSE "column"
  /\ UNCHANGED <<api, inputs, vault, clock, mainViewIndex, selectedViewName, viewIndex,
                 columnKeys, rows, matches, evaluations, thrown, output>>

\* the row loop on retained match i: the next column of its row
EvalColumn ==
  /\ pc = "column"
  /\ \E f \in {limitedMatches[i]}, columnKey \in {columnKeys[Len(row) + 1]} :
     \E r \in {evaluate(columnKey, "property \"" \o Join(columnKey) \o "\"",
                        StateOf(evaluations[f], f))} :
        /\ evaluations' = [evaluations EXCEPT ![f] = Persist(r.st)]
        /\ vault' = [vault EXCEPT ![f].tags = r.st.tags]
        /\ IF ~r.ok
           THEN /\ Uncaught(<<"Failed to evaluate property \"" \o Join(columnKey)
                                \o "\" for file \"" \o vault[f].relativePath \o "\"">>
                            \o r.err)
                /\ UNCHANGED <<rows, i, row>>
           ELSE /\ IF Len(row) + 1 = Len(columnKeys)
                   THEN /\ rows' = Append(rows, Append(row, formatValue(r.val, r.st)))
                        /\ row' = <<>>
                        /\ i' = i + 1
                        /\ pc' = IF i + 1 > Len(limitedMatches) THEN "render" ELSE "column"
                   ELSE /\ row' = Append(row, formatValue(r.val, r.st))
                        /\ UNCHANGED <<rows, i, pc>>
                /\ UNCHANGED <<thrown, stderr, exitCode>>
  /\ UNCHANGED <<api, inputs, clock, mainViewIndex, selectedViewName, viewIndex, columnKeys,
                 matches, limitedMatches, stdout>>

\* renderMarkdownTable: the placeholder table for no rows, else the header
\* and the body rows
renderMarkdownTable(result) ==
  IF Len(result) = 0 THEN [placeholder |-> TRUE, header |-> <<"">>, body |-> <<>>]
  ELSE [placeholder |-> FALSE, header |-> Head(result), body |-> Tail(result)]

\* main, after materialize returned: the heading and the table are printed
Render ==
  /\ pc = "render"
  /\ stdout' = <<"# " \o selectedViewName, renderMarkdownTable(rows)>>
  /\ exitCode' = 0
  /\ pc' = "done"
  /\ UNCHANGED <<api, inputs, vault, clock, mainViewIndex, selectedViewName, locals,
                 evaluations, thrown, stderr>>

\* time passes on the host between the calls of a library caller
Tick ==
  /\ pc = "library"
  /\ clock < MaxClock
  /\ clock' = clock + 1
  /\ UNCHANGED <<api, inputs, vault, pc, mainViewIndex, selectedViewName, locals,
                 evaluations, thrown, output>>

Next ==
  \/ Arguments
  \/ Main
  \/ Select
  \/ FilterBase
  \/ FilterView
  \/ ApplyLimit
  \/ EvalColumn
  \/ Render

Spec == Init /\ [][Next]_vars

\* ------------------------------------------- the library called on its own
\* A caller of the library builds two evaluation states from the first file
\* of the vault and the formulas of the base, and evaluates the expression
\* probe on either of them, up to MaxCalls times, while the host clock runs.
Scopes == {1, 2}

NotCalled == [called |-> FALSE, calls |-> 0, ok |-> FALSE, val |-> Undefined, err |-> <<>>, text |-> ""]

InitLibrary ==
  /\ base \in [filters : {NoFilter}, properties : {NoProperties}, views : {<<>>},
               formulas :
                 {NoFormulas}
                   \cup {Formulas(<<[key |-> <<"a">>, value |-> x]>>) :
                           x \in {Body(Src.One), Body(Src.Now), Body(Src.Today),
                                  Body(Src.Reverse), Body(Src.Tag0), Body(Src.APlus1),
                                  Body(Src.BPlus1), Body(Src.Missing), Body(Src.Blank),
                                  NonStringBody, Body(Src.GuardA), Body(Src.AndA),
                                  Body(Src.CoalesceA), Body(Src.CondA)}}
                   \cup {Formulas(<<[key |-> <<"a">>, value |-> Body(Src.BPlus1)],
                                    [key |-> <<"b">>, value |-> y]>>) :
                           y \in {Body(Src.One), Body(Src.Missing), Body(Src.APlus1),
                                  Body(Src.Undefined), Body(Src.Now), Body(Src.GuardA),
                                  Body(Src.AndA), Body(Src.CoalesceA), Body(Src.CondA)}}]
  /\ viewArg = Absent
  /\ cli = [help |-> FALSE, basePathArg |-> Absent, vault |-> Absent,
            inferredVaultPath |-> "none", baseFile |-> "ok", walkVault |-> "ok"]
  /\ vault = Vault
  /\ clock = 0
  /\ pc = "library"
  /\ mainViewIndex = 0
  /\ selectedViewName = ""
  /\ viewIndex = 0
  /\ columnKeys = <<>>
  /\ rows = <<>>
  /\ matches = <<>>
  /\ limitedMatches = <<>>
  /\ i = 0
  /\ row = <<>>
  /\ evaluations = [s \in Scopes |-> NewEvaluation(vault[1], base.formulas)]
  /\ thrown = <<>>
  /\ stdout = <<>>
  /\ stderr = <<>>
  /\ exitCode = 0 - 1
  /\ probe \in {Src.One, Src.Now, Src.Today, Src.FormulaA, Src.FormulaB, Src.APlus1,
                Src.Reverse, Src.Tag0, Src.Status, Src.Missing, Src.MathMax, Src.If,
                Src.FileName, Src.Bad, Src.StatusX}
  /\ results = [s \in Scopes |-> NotCalled]

\* state.evaluate(probe, "probe") on the evaluation state s
Evaluate(s) ==
  /\ pc = "library"
  /\ results[s].calls < MaxCalls
  /\ \E r \in {evaluate(probe, "probe", StateOf(evaluations[s], 1))} :
        /\ evaluations' = [evaluations EXCEPT ![s] = Persist(r.st)]
        /\ vault' = [vault EXCEPT ![1].tags = r.st.tags]
        /\ results' = [results EXCEPT ![s] =
                         [called |-> TRUE, calls |-> results[s].calls + 1, ok |-> r.ok,
                          val |-> r.val, err |-> r.err,
                          text |-> IF r.ok THEN formatValue(r.val, r.st) ELSE ""]]
  /\ UNCHANGED <<inputs, probe, clock, pc, mainViewIndex, selectedViewName, locals,
                 thrown, output>>

NextLibrary ==
  \/ \E s \in Scopes : Evaluate(s)
  \/ Tick

SpecLibrary == InitLibrary /\ [][NextLibrary]_vars

\* --------------------------------------- the operators evaluated on their own
\* A caller evaluates the expressions probe.sources in turn, each on a new
\* evaluation state of one file whose frontmatter binds s to the duration
\* text probe.input.text, d and e to Dates, n to a number and, when
\* probe.a.present, a to probe.a.value; it also calls parseDuration on the
\* text.
OperatorFile(input, d, e, n, a) ==
  [relativePath |-> "note.md",
   name |-> "note",
   note |-> << [key |-> <<"s">>, value |-> Str(Join(input.text))],
               [key |-> <<"d">>, value |-> DateV(d)],
               [key |-> <<"e">>, value |-> DateV(e)],
               [key |-> <<"n">>, value |-> Num(n)] >>
             \o (IF a.present THEN << [key |-> <<"a">>, value |-> a.value] >> ELSE <<>>),
   tags |-> <<>>]

OperatorDates == {0, MILLISECONDS_IN.DAY, MILLISECONDS_IN.WEEK}

OperatorRuns ==
  LET NoA == [present |-> FALSE, value |-> Undefined]
      Plain == CHOOSE input \in DurationSegments :
                 input.text = <<"1", " ", "w", "e", "e", "k">>
      DurationCases ==
        [input : DurationInputs, d : {0, MILLISECONDS_IN.DAY}, e : {0}, n : {1},
         a : {NoA},
         sources : {<<Src.Duration, Src.DPlusS, Src.DPlusDuration, Src.DMinusS>>}]
      DateCases ==
        [input : {Plain}, d : OperatorDates, e : OperatorDates, n : {0, 1, 600},
         a : {NoA}, sources : {<<Src.DMinusE, Src.DMinusN, Src.DMinusS>>}]
      CoalesceCases ==
        [input : {Plain}, d : {0}, e : {0}, n : {1},
         a : {NoA} \cup [present : {TRUE},
                         value : {Null, Undefined, Bool(FALSE), Bool(TRUE), Num(0),
                                  Num(1), NaN, Str(""), Str("x"), DateV(0)}],
         sources : {<<Src.OrMissing, Src.OrFormulaB>>}]
      RegExpCases ==
        [input : {Plain}, d : {0}, e : {0}, n : {1},
         a : [present : {TRUE},
              value : {Str("al"), Str("AL"), Str("xAly"), Str("la"), Str("a l"), Str("")}],
         sources : {<<Src.Matches, Src.Test, Src.TestExact>>}]
      ParseCases ==
        [input : {Plain}, d : {0}, e : {0}, n : {0, 1}, a : {NoA},
         sources : {<<Src.Bad, Src.BadIf, Src.BadFile, Src.BadAfterIf>>,
                    <<Src.BadFile, Src.Bad, Src.Missing>>}]
  IN DurationCases \cup DateCases \cup CoalesceCases \cup RegExpCases \cup ParseCases

NotParsed == [called |-> FALSE, ok |-> FALSE, total |-> 0, err |-> ""]

InitOperators ==
  /\ probe \in OperatorRuns
  /\ base = [filters |-> NoFilter, properties |-> NoProperties, views |-> <<>>,
             formulas |-> Formulas(<<[key |-> <<"b">>, value |-> Body(Src.One)]>>)]
  /\ viewArg = Absent
  /\ cli = [help |-> FALSE, basePathArg |-> Absent, vault |-> Absent,
            inferredVaultPath |-> "none", baseFile |-> "ok", walkVault |-> "ok"]
  /\ vault = <<OperatorFile(probe.input, probe.d, probe.e, probe.n, probe.a)>>
  /\ clock = 0
  /\ pc = "operators"
  /\ mainViewIndex = 0
  /\ selectedViewName = ""
  /\ viewIndex = 0
  /\ columnKeys = <<>>
  /\ rows = <<>>
  /\ matches = <<>>
  /\ limitedMatches = <<>>
  /\ i = 0
  /\ row = <<>>
  /\ evaluations = <<>>
  /\ thrown = <<>>
  /\ stdout = <<>>
  /\ stderr = <<>>
  /\ exitCode = 0 - 1
  /\ results = [parsed |-> NotParsed, values |-> <<>>]

\* parseDuration(text)
ParseDuration ==
  /\ pc = "operators"
  /\ ~results.parsed.called
  /\ \E r \in {parseDuration(probe.input.text)} :
        results' = [results EXCEPT !.parsed = r @@ [called |-> TRUE]]
  /\ UNCHANGED <<inputs, probe, vault, clock, pc, mainViewIndex, selectedViewName,
                 locals, evaluations, thrown, output>>

\* evaluateExpression(source, note) of the tests, for the next source: the
\* outcome, with the number of times the body of formula b was started
EvaluateExpression ==
  /\ pc = "operators"
  /\ Len(results.values) < Len(probe.sources)
  /\ \E st \in {StateOf(NewEvaluation(vault[1], base.formulas), 1)} :
       \E r \in {evaluate(probe.sources[Len(results.values) + 1], "test expression", st)} :
          results' = [results EXCEPT !.values =
                        Append(@, [ok |-> r.ok, val |-> r.val, err |-> r.err,
                                   started |-> r.st.count["b"]])]
  /\ UNCHANGED <<inputs, probe, vault, clock, pc, mainViewIndex, selectedViewName,
                 locals, evaluations, thrown, output>>

NextOperators ==
  \/ ParseDuration
  \/ EvaluateExpression

SpecOperators == InitOperators /\ [][NextOperators]_vars

\* ------------------------------------------ the pre-processing on its own
\* A caller applies normalizeExpressionSource to the source probe, a
\* concatenation of at most MaxTokens tokens: the two aliased names, the
\* parenthesis, white space, the three quotes, the backslash, the dot and a
\* letter.
SourceTokens ==
  {<<"i", "f">>, <<"f", "i", "l", "e">>, <<"(">>, <<" ">>, <<"'">>, <<"\"">>,
   <<Backtick>>, <<"\\">>, <<".">>, <<"x">>}

RECURSIVE Concat(_)
Concat(tokens) == IF tokens = <<>> THEN <<>> ELSE Head(tokens) \o Concat(Tail(tokens))

\* longer sources, with an escaped quote or backslash inside a span, a span
\* that holds another quote, and a member access next to a call
EscapedSources ==
  {Concat(<<opening, <<"\\">>, escaped, closing, name, skipped, <<"(">>, after>>) :
     opening \in {<<"'">>, <<"\"">>, <<Backtick>>},
     escaped \in {<<"'">>, <<"\"">>, <<"\\">>},
     closing \in {<<>>, <<"'">>, <<"\"">>},
     name \in {<<"i", "f">>, <<"f", "i", "l", "e">>},
     skipped \in {<<>>, <<" ", "\t">>},
     after \in {<<>>, <<"f", "i", "l", "e", ".", "n", "a", "m", "e", ")">>}}

Sources ==
  {Concat(tokens) : tokens \in UNION {[1..n -> SourceTokens] : n \in 0..MaxTokens}}
    \cup EscapedSources

InitNormalize ==
  /\ probe \in Sources
  /\ base = [filters |-> NoFilter, properties |-> NoProperties, views |-> <<>>,
             formulas |-> NoFormulas]
  /\ viewArg = Absent
  /\ cli = [help |-> FALSE, basePathArg |-> Absent, vault |-> Absent,
            inferredVaultPath |-> "none", baseFile |-> "ok", walkVault |-> "ok"]
  /\ vault = <<>>
  /\ clock = 0
  /\ pc = "normalize"
  /\ mainViewIndex = 0
  /\ selectedViewName = ""
  /\ viewIndex = 0
  /\ columnKeys = <<>>
  /\ rows = <<>>
  /\ matches = <<>>
  /\ limitedMatches = <<>>
  /\ i = 0
  /\ row = <<>>
  /\ evaluations = <<>>
  /\ thrown = <<>>
  /\ stdout = <<>>
  /\ stderr = <<>>
  /\ exitCode = 0 - 1
  /\ results = [called |-> FALSE, normalized |-> <<>>]

\* normalizeExpressionSource(probe)
Normalize ==
  /\ pc = "normalize"
  /\ ~results.called
  /\ results' = [called |-> TRUE, normalized |-> normalizeExpressionSource(probe)]
  /\ UNCHANGED <<inputs, probe, vault, clock, pc, mainViewIndex, selectedViewName,
                 locals, evaluations, thrown, output>>

NextNormalize == Normalize

SpecNormalize == InitNormalize /\ [][NextNormalize]_vars

\* ------------------------------------------------------ the vault loader
\* normalizePath of path-utils.ts: forward slashes for backslashes; whether
\* it also drops a leading "./" is a parameter of the run.
normalizePath(path, stripsDot) ==
  LET slashed == [k \in 1..Len(path) |-> IF path[k] = "\\" THEN "/" ELSE path[k]]
  IN IF stripsDot /\ StartsWith(slashed, <<".", "/">>, 1)
     THEN SubSeq(slashed, 3, Len(slashed)) ELSE slashed

\* target.replace(/[#^].*$/, "")
StripAnchor(target) ==
  IF \E k \in 1..Len(target) : target[k] \in {"#", "^"}
  THEN SubSeq(target, 1,
              (CHOOSE k \in 1..Len(target) :
                 /\ target[k] \in {"#", "^"}
                 /\ \A j \in 1..(k - 1) : target[j] \notin {"#", "^"}) - 1)
  ELSE target

EndsWith(chars, suffix) ==
  Len(chars) >= Len(suffix) /\ StartsWith(chars, suffix, Len(chars) - Len(suffix) + 1)

\* byPath.get(path), as the index of the file in files, 0 for no entry
ByPath(files, path) ==
  IF \E f \in 1..Len(files) : files[f].relativePath = Join(path)
  THEN CHOOSE f \in 1..Len(files) : files[f].relativePath = Join(path) ELSE 0

\* byName.get(name)[0], as the index of the file in files, 0 for no entry
ByName(files, name) ==
  IF \E f \in 1..Len(files) : files[f].name = Join(name)
  THEN CHOOSE f \in 1..Len(files) :
         /\ files[f].name = Join(name)
         /\ \A g \in 1..(f - 1) : files[g].name # Join(name)
  ELSE 0

\* the first lookup that found a file, 0 when none did
FirstHit(lookups) ==
  IF \A k \in 1..Len(lookups) : lookups[k] = 0 THEN 0
  ELSE lookups[CHOOSE k \in 1..Len(lookups) :
                 lookups[k] # 0 /\ \A j \in 1..(k - 1) : lookups[j] = 0]

\* The index in files of the file a link target resolves to, 0 for none: the
\* absolute candidates are looked up by path, then the cleaned target and
\* the target without its extension by name.
resolveLinkTarget(targetRaw, source, files, stripsDot) ==
  LET md == <<".", "m", "d">>
      WithExtension(candidate) ==
        <<ByPath(files, candidate)>>
          \o (IF ~EndsWith(candidate, md) THEN <<ByPath(files, candidate \o md)>>
              ELSE <<>>)
      Lookups(cleaned) ==
        WithExtension(IF \E k \in 1..Len(cleaned) : cleaned[k] = "/" THEN cleaned
                      ELSE normalizePath(Chars(source.folder) \o <<"/">> \o cleaned,
                                         stripsDot))
          \o <<ByName(files, cleaned),
               ByName(files, IF EndsWith(cleaned, md)
                             THEN SubSeq(cleaned, 1, Len(cleaned) - 3) ELSE cleaned)>>
      Target(target) ==
        IF target = <<>> THEN 0
        ELSE FirstHit(Lookups(normalizePath(StripAnchor(target), stripsDot)))
  IN Target(Trim(Chars(targetRaw)))

\* existing.add(path) on a list that repeats what it already holds
AddBacklink_Repeating(existing, path) == Append(existing, path)

\* existing.add(path) on a Set, kept in insertion order
AddBacklink(existing, path) ==
  IF path \in Range(existing) THEN existing ELSE Append(existing, path)

\* backlinkMap.get(path), as [present, list], after link k of file f and all
\* the links after it, the links of a file before its embeds
RECURSIVE Backlinks(_, _, _, _, _)
Backlinks(linked, path, f, k, existing) ==
  IF f > Len(linked) THEN existing
  ELSE IF k > Len(linked[f].links) + Len(linked[f].embeds)
    THEN Backlinks(linked, path, f + 1, 1, existing)
  ELSE LET Added(link) ==
             IF link.resolved /\ link.resolvedPath = path
             THEN [present |-> TRUE,
                   list |-> AddBacklink(existing.list, linked[f].relativePath)]
             ELSE existing
       IN Backlinks(linked, path, f, k + 1,
                    Added(IF k <= Len(linked[f].links) THEN linked[f].links[k]
                          ELSE linked[f].embeds[k - Len(linked[f].links)]))

\* resolveLinks: every link and embed of every file is resolved, in the order
\* of the files; the backlinks of a file are replaced when some link
\* resolved to it.
resolveLinks(files, stripsDot) ==
  LET Resolved(link, r) ==
        IF r = 0 THEN link
        ELSE [link EXCEPT !.resolved = TRUE, !.resolvedPath = files[r].relativePath]
      Split(f, all) ==
        [files[f] EXCEPT !.links = SubSeq(all, 1, Len(@)),
                         !.embeds = SubSeq(all, Len(files[f].links) + 1, Len(all))]
      Linked(f, all) ==
        Split(f, [k \in 1..Len(all) |->
                    Resolved(all[k],
                             resolveLinkTarget(all[k].target, files[f], files, stripsDot))])
      WithBacklinks(file, backlinks) ==
        IF backlinks.present THEN [file EXCEPT !.backlinks = backlinks.list] ELSE file
      WithLinked(linked) ==
        [f \in 1..Len(linked) |->
           WithBacklinks(linked[f],
                         Backlinks(linked, linked[f].relativePath, 1, 1,
                                   [present |-> FALSE, list |-> <<>>]))]
  IN WithLinked([f \in 1..Len(files) |->
                   IF ~files[f].parsed THEN files[f]
                   ELSE Linked(f, files[f].links \o files[f].embeds)])

\* parseVaultFile: the descriptor of a file before the links are resolved;
\* a file that is not markdown has no links and no embeds
ParsedFile(relativePath, name, folder, ext, links, embeds) ==
  LET Link(target, isEmbed) ==
        [target |-> target, isEmbed |-> isEmbed, resolved |-> FALSE, resolvedPath |-> ""]
  IN [relativePath |-> relativePath, name |-> name, folder |-> folder, ext |-> ext,
      parsed |-> ext = "md",
      links |-> IF ext = "md" THEN [k \in 1..Len(links) |-> Link(links[k], FALSE)]
                ELSE <<>>,
      embeds |-> IF ext = "md" THEN [k \in 1..Len(embeds) |-> Link(embeds[k], TRUE)]
                 ELSE <<>>,
      backlinks |-> <<>>]

\* link targets: by name, by path from the vault root, with an extension and
\* an anchor and white space, and one that names no file
LinkTargets == {"a", "dir/b", " b.md#h ", "zzz"}

LinkLists == UNION {[1..n -> LinkTargets] : n \in 0..MaxLinks}

\* the vault walked: two files named a, one of them in the vault root, a
\* file b, and a picture, in one of two orders
WalkedVault(rootLinks, rootEmbeds, dirLinks, reversed) ==
  LET Ordered(root, dirA, dirB, picture) ==
        IF reversed THEN <<picture, dirB, dirA, root>> ELSE <<root, dirA, dirB, picture>>
  IN Ordered(ParsedFile("a.md", "a", ".", "md", rootLinks, rootEmbeds),
             ParsedFile("dir/a.md", "a", "dir", "md", dirLinks, <<>>),
             ParsedFile("dir/b.md", "b", "dir", "md", <<"a">>, <<"c.png">>),
             ParsedFile("c.png", "c", ".", "png", <<>>, <<>>))

VaultRuns ==
  [rootLinks : LinkLists,
   rootEmbeds : {<<>>} \cup {<<t>> : t \in LinkTargets},
   dirLinks : {<<>>} \cup {<<t>> : t \in LinkTargets},
   reversed : BOOLEAN,
   stripsDot : BOOLEAN]

InitVault ==
  /\ probe \in VaultRuns
  /\ base = [filters |-> NoFilter, properties |-> NoProperties, views |-> <<>>,
             formulas |-> NoFormulas]
  /\ viewArg = Absent
  /\ cli = [help |-> FALSE, basePathArg |-> Absent, vault |-> Absent,
            inferredVaultPath |-> "none", baseFile |-> "ok", walkVault |-> "ok"]
  /\ vault = WalkedVault(probe.rootLinks, probe.rootEmbeds, probe.dirLinks, probe.reversed)
  /\ clock = 0
  /\ pc = "walked"
  /\ mainViewIndex = 0
  /\ selectedViewName = ""
  /\ viewIndex = 0
  /\ columnKeys = <<>>
  /\ rows = <<>>
  /\ matches = <<>>
  /\ limitedMatches = <<>>
  /\ i = 0
  /\ row = <<>>
  /\ evaluations = <<>>
  /\ thrown = <<>>
  /\ stdout = <<>>
  /\ stderr = <<>>
  /\ exitCode = 0 - 1
  /\ results = [loaded |-> FALSE]

\* walkVault, after the files were parsed: the maps by path and by name are
\* built and the links resolved
LoadVault ==
  /\ pc = "walked"
  /\ vault' = resolveLinks(vault, probe.stripsDot)
  /\ pc' = "loaded"
  /\ results' = [loaded |-> TRUE]
  /\ UNCHANGED <<inputs, probe, clock, mainViewIndex, selectedViewName, locals,
                 evaluations, thrown, output>>

NextVault == LoadVault

SpecVault == InitVault /\ [][NextVault]_vars

\* ------------------------------------------------------------------- claims
\* C1: when the evaluation of a formula demands that formula again before it
\* has finished, directly or through other formulas, the access raises the
\* error 'Circular formula reference detected for "<name>"' naming a formula
\* on the cycle: no such access returns a value, the nesting of formulas
\* stays bounded, and the run ends with that error as its innermost cause.
C1_CycleRaises ==
  \A f \in 1..MaxFiles :
    /\ evaluations[f].silent = {}
    /\ ~evaluations[f].diverged
    /\ evaluations[f].reentered # {} =>
         /\ pc = "failed"
         /\ \E x \in evaluations[f].reentered : thrown[Len(thrown)] = CircularMessage(x)

\* a run that failed on the cycle a -> b -> a
C1_Witness ==
  /\ pc = "failed"
  /\ \E f \in 1..MaxFiles :
       /\ evaluations[f].reentered # {}
       /\ evaluations[f].count["a"] = 1
       /\ evaluations[f].count["b"] = 1

\* C2 as stated: within one evaluation state the body of each formula is
\* evaluated at most once, over any sequence of evaluate calls.
C2_BodyAtMostOnce ==
  \A s \in Scopes : \A k \in FormulaNames : evaluations[s].count[k] <= 1

\* C2 amended: within one evaluation state the body of each formula returns
\* at most once; the value it returned is cached, a cached value (undefined
\* included) never changes, the body of a cached formula is not started
\* again, and an access to a cached formula returns the cached value. A body
\* that raised is not cached and is evaluated again by the next access.
C2_BodyReturnsOnce ==
  [][\A s \in Scopes : \A k \in FormulaNames :
       LET before == evaluations[s]
           after == evaluations'[s]
           access == IF k = "a" THEN Src.FormulaA ELSE Src.FormulaB
       IN /\ after.returned[k] <= 1
          /\ after.returned[k] = 1 => k \in DOMAIN after.formulaCache
          /\ k \in DOMAIN before.formulaCache =>
               /\ k \in DOMAIN after.formulaCache
               /\ after.formulaCache[k] = before.formulaCache[k]
               /\ after.count[k] = before.count[k]
               /\ (results'[s] # results[s] /\ probe = access) =>
                    /\ results'[s].ok
                    /\ results'[s].val = before.formulaCache[k]]_vars

\* formula.a was read MaxCalls times on one scope and its body ran once
C2_Witness ==
  /\ probe = Src.FormulaA
  /\ results[1].calls = MaxCalls
  /\ results[1].val = Num(2)
  /\ evaluations[1].count = [k \in FormulaNames |-> 1]
  /\ evaluations[1].returned = [k \in FormulaNames |-> 1]

\* C3: for a filter tree whose compound nodes use the keys and, or, not with
\* array groups, matchesFilter returns (every member of and matches) and (or
\* is absent, or some member of or matches) and (no member of not matches);
\* an undefined or null top-level filter matches. The leaves are the
\* expressions true, false, blank and one that raises; a result that is
\* returned does not depend on the leaves that raise, and a tree without
\* such a leaf returns.
C3_FilterSemantics ==
  [][LET RECURSIVE LeavesOf(_), KeysOf(_), Matching(_, _)
         KeysOf(tree) ==
           IF tree.kind # "object" THEN {}
           ELSE UNION {{tree.entries[g].key}
                         \cup (IF tree.entries[g].value.isArray
                               THEN UNION {KeysOf(tree.entries[g].value.items[n]) :
                                             n \in 1..Len(tree.entries[g].value.items)}
                               ELSE {}) : g \in 1..Len(tree.entries)}
         LeavesOf(tree) ==
           IF tree.kind = "string" THEN {tree.chars}
           ELSE IF tree.kind # "object" THEN {}
           ELSE UNION {IF tree.entries[g].value.isArray
                       THEN UNION {LeavesOf(tree.entries[g].value.items[n]) :
                                     n \in 1..Len(tree.entries[g].value.items)}
                       ELSE {<<"?">>} : g \in 1..Len(tree.entries)}
         Matching(tree, raised) ==
           IF tree.kind \in {"undefined", "null"} THEN TRUE
           ELSE IF tree.kind = "string"
             THEN IF tree.chars = Src.Missing THEN raised ELSE tree.chars = Src.True
           ELSE LET members(key) == ValueOf(tree.entries, key).items IN
                /\ HasKey(tree.entries, "and") =>
                     \A n \in 1..Len(members("and")) : Matching(members("and")[n], raised)
                /\ HasKey(tree.entries, "or") =>
                     \E n \in 1..Len(members("or")) : Matching(members("or")[n], raised)
                /\ HasKey(tree.entries, "not") =>
                     \A n \in 1..Len(members("not")) : ~Matching(members("not")[n], raised)
         Covered(tree) ==
           /\ tree.kind \in {"undefined", "null", "string", "object"}
           /\ KeysOf(tree) \subseteq {"and", "or", "not"}
           /\ LeavesOf(tree) \subseteq {Src.True, Src.False, Src.Blank, Src.Missing}
         Sound(tree, returns, matched) ==
           Covered(tree) =>
             /\ returns => \A raised \in BOOLEAN : matched = Matching(tree, raised)
             /\ Src.Missing \notin LeavesOf(tree) => returns
     IN /\ (pc = "base" /\ (pc' # "base" \/ i' # i)) =>
             Sound(base.filters, pc' # "failed", pc' = "view")
        /\ (pc = "view" /\ pc' # "view") =>
             Sound(SelectedView.filters, pc' # "failed", matches' # matches)]_vars

\* a file passed a base filter with all three groups
C3_Witness ==
  /\ pc = "view"
  /\ base.filters = Compound(Group(<<Yes, Yes>>), Group(<<No, Yes>>), Group(<<No, No>>))

\* C4: a view whose limit is a positive finite number L yields the rows of
\* the first floor(L) matching files in vault order (all of them when there
\* are fewer); any other limit (absent, zero, negative, non-finite, not a
\* number) yields a row for every matching file.
C4_Limit ==
  LET view == base.views[viewIndex]
      known == {NoFilter, FilterString(Src.StatusX)}
      passes(f, filter) == filter = NoFilter \/ NoteGet(vault[f].note, "status") = Str("x")
      matching == SelectSeq([f \in 1..Len(vault) |-> f],
                            LAMBDA f : passes(f, base.filters) /\ passes(f, view.filters))
      floor == CHOOSE n \in 0..(view.limit.tenths + 1) :
                 10 * n <= view.limit.tenths /\ view.limit.tenths < 10 * (n + 1)
      positive == view.limit.kind = "number" /\ view.limit.tenths > 0
      kept == IF positive /\ floor < Len(matching) THEN floor ELSE Len(matching)
  IN (/\ pc = "done"
      /\ viewIndex # 0
      /\ columnKeys = <<Src.FileName>>
      /\ base.filters \in known
      /\ view.filters \in known
      /\ \A f \in 1..Len(vault) : NoteHas(vault[f].note, "status")) =>
       /\ Len(rows) = kept + 1
       /\ \A k \in 1..kept : rows[k + 1] = <<vault[matching[k]].name>>

\* the limit 1.5 kept one of several matching files
C4_Witness ==
  /\ pc = "done"
  /\ viewIndex # 0
  /\ base.views[viewIndex].limit = Limit(15)
  /\ Len(matches) >= 2
  /\ Len(rows) = 2

\* C5 as stated: the column keys are the view's order when it is a non-empty
\* sequence of strings; otherwise the keys of the property map; otherwise
\* formula.<name> for each formula; with none of them the result is empty
\* and the placeholder table is printed.
C5_OrderOfStringsOnly ==
  LET order == base.views[viewIndex].order
      strings == order.isArray /\ order.items # <<>>
                   /\ \A n \in 1..Len(order.items) : order.items[n].isString
      properties == IF base.properties.present
                    THEN [n \in 1..Len(base.properties.entries) |->
                            base.properties.entries[n].key]
                    ELSE <<>>
      formulas == IF base.formulas.present
                  THEN [n \in 1..Len(base.formulas.entries) |->
                          <<"f", "o", "r", "m", "u", "l", "a", ".">>
                            \o base.formulas.entries[n].key]
                  ELSE <<>>
      expected == IF strings THEN [n \in 1..Len(order.items) |-> order.items[n].chars]
                  ELSE IF properties # <<>> THEN properties
                  ELSE formulas
  IN viewIndex # 0 =>
       /\ expected # <<>> => columnKeys = expected /\ Len(rows) >= 1
       /\ expected = <<>> => rows = <<>> /\ (pc = "done" => stdout[2].placeholder)

\* C5 amended: the column keys are the string entries of the view's order
\* when it has any; otherwise the keys of the property map; otherwise
\* formula.<name> for each formula; with none of them the result is empty
\* and the placeholder table is printed.
C5_StringEntriesOfOrder ==
  LET order == base.views[viewIndex].order
      strings == IF order.isArray
                 THEN SelectSeq(order.items, LAMBDA entry : entry.isString) ELSE <<>>
      properties == IF base.properties.present
                    THEN [n \in 1..Len(base.properties.entries) |->
                            base.properties.entries[n].key]
                    ELSE <<>>
      formulas == IF base.formulas.present
                  THEN [n \in 1..Len(base.formulas.entries) |->
                          <<"f", "o", "r", "m", "u", "l", "a", ".">>
                            \o base.formulas.entries[n].key]
                  ELSE <<>>
      expected == IF strings # <<>> THEN [n \in 1..Len(strings) |-> strings[n].chars]
                  ELSE IF properties # <<>> THEN properties
                  ELSE formulas
  IN viewIndex # 0 =>
       /\ expected # <<>> =>
            /\ columnKeys = expected
            /\ Len(rows) >= 1
            /\ Len(rows[1]) = Len(expected)
       /\ expected = <<>> => rows = <<>> /\ (pc = "done" => stdout[2].placeholder)

\* an order with an entry that is no string gave the column of its string
\* entry although the base has a property map
C5_Witness ==
  /\ pc = "done"
  /\ base.views # <<>>
  /\ base.views[1].order = Order(<<NotAColumn, Column(Src.Status)>>)
  /\ base.properties.present /\ base.properties.entries # <<>>
  /\ columnKeys = <<Src.Status>>

\* C6: when --view is omitted the first view of the base is materialized,
\* whatever the names of the views; when --view names a view, the first view
\* of that name is materialized.
C6_ViewSelection ==
  viewIndex # 0 =>
    /\ viewArg = Absent => viewIndex = 1
    /\ (viewArg.isString /\ viewArg.value # "") =>
         /\ base.views[viewIndex].name = viewArg
         /\ \A n \in 1..(viewIndex - 1) : base.views[n].name # viewArg

\* C7: no evaluation obtains and calls the Function constructor.
C7_NoCodeGeneration ==
  \A f \in 1..MaxFiles : ~evaluations[f].codegen

\* C8: a frontmatter key is bound to its frontmatter value in the scope only
\* if it is a valid identifier that is no reserved name, no global function
\* name or alias, and no built-in namespace name; the built-in namespaces and
\* the global functions keep their bindings.
C8_NoShadowing ==
  \A f \in 1..MaxFiles :
    evaluations[f].built =>
      LET scope == evaluations[f].scope
          note == vault[f].note
      IN /\ \A n \in 1..Len(note) :
              (/\ Join(note[n].key) \in DOMAIN scope
               /\ scope[Join(note[n].key)] = note[n].value) =>
                /\ MatchesIdentifierPattern(note[n].key)
                /\ Join(note[n].key) \notin
                     RESERVED_IDENTIFIERS \cup GlobalFunctionKeys \cup BuiltinKeys
                       \cup {"_if", "_fileFn"}
         /\ \A n \in 1..Len(BUILTIN_SCOPE_ENTRIES) :
              scope[BUILTIN_SCOPE_ENTRIES[n].key] = BUILTIN_SCOPE_ENTRIES[n].value
         /\ \A n \in 1..Len(GLOBAL_FUNCTIONS) :
              /\ GLOBAL_FUNCTIONS[n] \notin DOMAIN InitialScope =>
                   scope[GLOBAL_FUNCTIONS[n]] = GlobalFn(GLOBAL_FUNCTIONS[n])
              /\ AliasOf(GLOBAL_FUNCTIONS[n]) # "" =>
                   scope[AliasOf(GLOBAL_FUNCTIONS[n])] = GlobalFn(GLOBAL_FUNCTIONS[n])

\* C9: no step of a run changes the data of a file or a binding of the scope
\* built for it; only the formula memo table of an evaluation state changes.
C9_ScopeUnchanged ==
  [][/\ vault' = vault
     /\ \A f \in 1..MaxFiles :
          evaluations[f].built => evaluations'[f].scope = evaluations[f].scope]_vars

C11_MemoPerFile ==
  LET formulas == FormulaMap(base.formulas)
      covered == /\ "a" \in DOMAIN formulas
                 /\ formulas["a"] \in {Body(Src.FileName), Body(Src.Status)}
                 /\ "b" \in DOMAIN formulas => formulas["b"] = Body(Src.FormulaA)
      valueOn(f) == IF formulas["a"] = Body(Src.FileName) THEN Str(vault[f].name)
                    ELSE NoteGet(vault[f].note, "status")
      defined(columnKey) == columnKey = Src.FormulaA
                              \/ (columnKey = Src.FormulaB /\ "b" \in DOMAIN formulas)
  IN covered =>
       /\ \A f \in 1..Len(vault) :
            \A k \in DOMAIN evaluations[f].formulaCache :
              evaluations[f].formulaCache[k] = valueOn(f)
       /\ \A k \in 2..Len(rows) :
            \A c \in 1..Len(columnKeys) :
              defined(columnKeys[c]) => rows[k][c] = ToStr(valueOn(limitedMatches[k - 1]))

\* two files have cached different values of formula a, the vault being
\* walked from its last file to its first
C11_Witness ==
  /\ pc = "done"
  /\ vault = Reverse(Vault)
  /\ Len(rows) = Len(vault) + 1
  /\ \A f \in 1..Len(vault) : "a" \in DOMAIN evaluations[f].formulaCache
  /\ evaluations[1].formulaCache["a"] # evaluations[2].formulaCache["a"]

\* C12 (as claimed): a filter tree that contains, at any depth, a compound
\* node with a key other than and, or, not makes matchesFilter raise: the run
\* fails on the first file the filter is applied to, and no file is ever
\* matched or rejected by such a filter.
C12_UnsupportedKeyRaises ==
  LET RECURSIVE Contains(_)
      Contains(tree) ==
        /\ tree.kind = "object"
        /\ \/ ~filterExpressionsValid(tree.entries)
           \/ \E g \in 1..Len(tree.entries) :
                \E n \in 1..Len(tree.entries[g].value.items) :
                  Contains(tree.entries[g].value.items[n])
  IN /\ Contains(base.filters) =>
          pc \in {"args", "main", "select", "failed"} \/ (pc = "base" /\ i = 1)
     /\ (viewIndex # 0 /\ Contains(SelectedView.filters)) =>
          pc \in {"args", "main", "select", "failed"} \/ (pc \in {"base", "view"} /\ i = 1)

\* C12 (amended): a compound node with a key other than and, or, not makes
\* matchesFilter raise 'Filter contains unsupported keys: <keys>', wrapped as
\* 'Failed to process <context>', when the evaluation reaches the node: always
\* at the top of the tree, and below it unless an earlier member or group has
\* decided the result (the members of a group are evaluated in order, `and`
\* stops at its first member that does not match, `or` and `not` at their
\* first member that matches, and a group is evaluated only when the groups
\* before it are satisfied). Whenever matchesFilter returns for a tree with
\* such a node, the node was not reached.
C12_ReachedUnsupportedKeyRaises ==
  [][LET RECURSIVE Arrays(_), Outcome(_)
         \* every group of the tree is an array, every leaf is true or false
         Arrays(tree) ==
           /\ tree.kind = "string" => tree.chars \in {Src.True, Src.False}
           /\ tree.kind = "object" =>
                \A g \in 1..Len(tree.entries) :
                  /\ tree.entries[g].value.isArray
                  /\ \A n \in 1..Len(tree.entries[g].value.items) :
                       Arrays(tree.entries[g].value.items[n])
         Outcome(tree) ==
           IF tree.kind \in {"undefined", "null"} THEN "true"
           ELSE IF tree.kind = "string"
             THEN IF tree.chars = Src.True THEN "true" ELSE "false"
           ELSE IF tree.kind # "object" THEN "shape"
           ELSE IF \E g \in 1..Len(tree.entries) :
                     tree.entries[g].key \notin {"and", "or", "not"}
             THEN "keys"
           ELSE
             LET members(key) == IF HasKey(tree.entries, key)
                                 THEN ValueOf(tree.entries, key).items ELSE <<>>
                 \* the outcome of the first member that is not `skip`
                 first(key, skip) ==
                   LET stops == {n \in 1..Len(members(key)) :
                                   Outcome(members(key)[n]) # skip}
                   IN IF stops = {} THEN skip
                      ELSE Outcome(members(key)[CHOOSE n \in stops :
                                                  \A m \in stops : n <= m])
                 negate(outcome) == CASE outcome = "true" -> "false"
                                      [] outcome = "false" -> "true"
                                      [] OTHER -> outcome
                 and == first("and", "true")
                 or == IF HasKey(tree.entries, "or") THEN first("or", "false") ELSE "true"
                 not == negate(first("not", "false"))
             IN IF and # "true" THEN and ELSE IF or # "true" THEN or ELSE not
         Sound(tree, returns, matched, context, error) ==
           Arrays(tree) =>
             /\ returns <=> Outcome(tree) \in {"true", "false"}
             /\ returns => (matched <=> Outcome(tree) = "true")
             /\ Outcome(tree) = "keys" =>
                  /\ Len(error) = 2
                  /\ error[1] = "Failed to process " \o context
                  /\ error[2] \in {"Filter contains unsupported keys: foo",
                                   "Filter contains unsupported keys: foo, bar"}
             /\ tree = Unsupported(<<"and", "foo", "or", "bar">>) =>
                  error[2] = "Filter contains unsupported keys: foo, bar"
     IN /\ (pc = "base" /\ (pc' # "base" \/ i' # i)) =>
             Sound(base.filters, pc' # "failed", pc' = "view",
                   "base filters for file \"" \o vault[i].relativePath \o "\"", thrown')
        /\ (pc = "view" /\ pc' # "view") =>
             Sound(SelectedView.filters, pc' # "failed", matches' # matches,
                   "view \"Main\" filters for file \"" \o vault[i].relativePath \o "\"",
                   thrown')]_vars

\* a node with an unsupported key below the top of the base filter was
\* reached and made the run fail
C12_Witness ==
  /\ pc = "failed"
  /\ base.filters = Compound(Group(<<Yes, Unsupported(<<"foo">>)>>), NoGroup, NoGroup)
  /\ thrown = <<"Failed to process base filters for file \"n1.md\"",
                "Filter contains unsupported keys: foo">>

\* C13 (as claimed): a base or view filter with an `and`, `or` or `not` group
\* that is not an array makes materialization fail, with 'Failed to process
\* <context>' caused by '<context> "<group>" group must be an array.',
\* whatever the other groups of the node evaluate to.
C13_NonArrayGroupFails ==
  LET claimed(tree) ==
        /\ tree.kind = "object"
        /\ filterExpressionsValid(tree.entries)
        /\ \E g \in 1..Len(tree.entries) : ~tree.entries[g].value.isArray
        /\ \A g \in 1..Len(tree.entries) :
             tree.entries[g].value.items \in {<<>>, <<Yes>>, <<No>>}
      failure(context) ==
        /\ Len(thrown) = 2
        /\ thrown[1] = "Failed to process " \o context
        /\ thrown[2] \in {context \o " \"" \o key \o "\" group must be an array." :
                            key \in {"and", "or", "not"}}
  IN /\ claimed(base.filters) =>
          \/ pc \in {"args", "main", "select"}
          \/ pc = "base" /\ i = 1
          \/ pc = "failed" /\ failure("base filters for file \"n1.md\"")
     /\ (viewIndex # 0 /\ claimed(SelectedView.filters)) =>
          \/ pc \in {"args", "main", "select"}
          \/ pc \in {"base", "view"} /\ i = 1
          \/ pc = "failed" /\ failure("view \"Main\" filters for file \"n1.md\"")

\* C13 (amended): a group that is not an array makes materialization fail
\* with 'Failed to process <context>' caused by '<context> "<group>" group
\* must be an array.' when the evaluation reaches the group: the groups of a
\* node are processed in the order and, or, not, each only when the groups
\* before it are satisfied, and a node below the top is evaluated only when
\* no earlier member has decided its group. A node whose earlier group fails
\* evaluates to false without that error.
C13_ReachedNonArrayGroupFails ==
  [][LET RECURSIVE Covered(_), Outcome(_, _)
         \* a tree of true and false leaves and of nodes with the keys and,
         \* or, not
         Covered(tree) ==
           /\ tree.kind \in {"undefined", "null", "string", "object"}
           /\ tree.kind = "string" => tree.chars \in {Src.True, Src.False}
           /\ tree.kind = "object" =>
                \A g \in 1..Len(tree.entries) :
                  /\ tree.entries[g].key \in {"and", "or", "not"}
                  /\ \A n \in 1..Len(tree.entries[g].value.items) :
                       Covered(tree.entries[g].value.items[n])
         \* "true", "false", or the message of the error
         Outcome(tree, context) ==
           IF tree.kind \in {"undefined", "null"} THEN "true"
           ELSE IF tree.kind = "string"
             THEN IF tree.chars = Src.True THEN "true" ELSE "false"
           ELSE
             LET group(key, satisfied, stop) ==
                   IF ~HasKey(tree.entries, key) THEN "true"
                   ELSE IF ~ValueOf(tree.entries, key).isArray
                     THEN context \o " \"" \o key \o "\" group must be an array."
                   ELSE
                     LET members == ValueOf(tree.entries, key).items
                         of(n) == Outcome(members[n], context \o " (" \o key \o ")")
                         stops == {n \in 1..Len(members) : of(n) # stop}
                         decided == of(CHOOSE n \in stops : \A m \in stops : n <= m)
                     IN IF stops = {} THEN (IF satisfied = stop THEN "true" ELSE "false")
                        ELSE IF decided \notin {"true", "false"} THEN decided
                        ELSE IF satisfied = stop THEN "false" ELSE "true"
                 and == group("and", "true", "true")
                 or == group("or", "true", "false")
                 not == group("not", "false", "false")
             IN IF and # "true" THEN and ELSE IF or # "true" THEN or ELSE not
         Sound(tree, returns, matched, context, error) ==
           Covered(tree) =>
             LET outcome == Outcome(tree, context) IN
             /\ returns <=> outcome \in {"true", "false"}
             /\ returns => (matched <=> outcome = "true")
             /\ ~returns => error = <<"Failed to process " \o context, outcome>>
     IN /\ (pc = "base" /\ (pc' # "base" \/ i' # i)) =>
             Sound(base.filters, pc' # "failed", pc' = "view",
                   "base filters for file \"" \o vault[i].relativePath \o "\"", thrown')
        /\ (pc = "view" /\ pc' # "view") =>
             Sound(SelectedView.filters, pc' # "failed", matches' # matches,
                   "view \"Main\" filters for file \"" \o vault[i].relativePath \o "\"",
                   thrown')]_vars

\* the `or` group of the view filter is not an array and was reached, its
\* `and` group being satisfied
C13_Witness ==
  /\ pc = "failed"
  /\ viewIndex # 0
  /\ SelectedView.filters = Compound(Group(<<Yes>>), NotAGroup, Group(<<No>>))
  /\ thrown = <<"Failed to process view \"Main\" filters for file \"n1.md\"",
                "view \"Main\" filters for file \"n1.md\" \"or\" group must be an array.">>

\* C14: a run of the command line that fails (no base path, vault path not
\* determined, base file unreadable, invalid YAML, root that is not an
\* object, no views, unknown --view, error while walking the vault, error
\* in a filter or a column) ends with exit code 1 and has written nothing to
\* standard output: standard output is written only by the last step of a
\* run that succeeds (or by --help), and a run with one of these causes never
\* ends with exit code 0.
C14_FailureWritesNoStdout ==
  LET cause ==
        /\ ~cli.help
        /\ \/ ~cli.basePathArg.isString
           \/ ~(cli.vault.isString /\ cli.vault.value # "") /\ cli.inferredVaultPath # "found"
           \/ cli.baseFile # "ok"
           \/ base.views = <<>>
           \/ viewArg.isString /\ viewArg.value # ""
                /\ \A v \in 1..Len(base.views) :
                     ~(base.views[v].name.isString /\ base.views[v].name.value = viewArg.value)
           \/ cli.walkVault = "error"
           \/ thrown # <<>>
  IN /\ stdout # <<>> => pc = "done" /\ exitCode = 0
     /\ pc = "failed" <=> exitCode = 1
     /\ pc = "failed" => stdout = <<>> /\ stderr # <<>>
     /\ pc = "done" <=> exitCode = 0
     /\ cause => pc # "done"

\* a column raised in a run that inferred its vault path
C14_Witness ==
  /\ pc = "failed"
  /\ exitCode = 1
  /\ stdout = <<>>
  /\ cli.vault = Absent
  /\ Len(thrown) > 1
  /\ Len(stderr) = 4

\* C15: a run that succeeds (exit code 0) writes nothing to the diagnostic
\* stream, also when --vault is omitted and the vault path is inferred from
\* the location of the base file.
C15_SuccessWritesNoStderr ==
  exitCode = 0 => stderr = <<>>

\* C16: for every token of the unit table and every amount n, parseDuration
\* of n followed by the token, with or without a space between, returns n
\* times the milliseconds of the token's unit (a minute for m, min, mins,
\* minute and minutes, 30 days for M).
C16_SegmentIsAmountTimesUnit ==
  (results.parsed.called /\ probe.input.kind = "segment")
    => /\ results.parsed.ok
       /\ results.parsed.total
            = probe.input.tenths * (DURATION_UNIT_MULTIPLIERS[probe.input.unit] \div 10)

\* C17: parseDuration raises an error, and returns no sum, for a text that
\* is empty or white space only, for a text without a (number, unit)
\* segment, and for a text with characters other than white space before its
\* first segment, between two segments or after its last segment.
C17_MalformedDurationRaises ==
  (results.parsed.called
     /\ probe.input.kind \in {"empty", "no segment", "before", "between", "after"})
    => /\ ~results.parsed.ok
       /\ results.parsed.err # ""
       /\ results.parsed.total = 0

C17_Witness ==
  /\ results.parsed.called
  /\ probe.input.text = <<"1", "d", " ", "x", " ", "2", "h">>
  /\ probe.input.kind = "between"
  /\ results.parsed.err = "Invalid duration segment \"x\" in \"1d x 2h\"."

\* C18: for a Date d and a string s that duration() accepts, d + s and
\* d + duration(s) are both the Date at d + parseDuration(s), and d - s is
\* the Date at d - parseDuration(s); for a string s that duration() rejects,
\* d + s is not a Date.
C18_DateAndDurationString ==
  (/\ results.parsed.called
   /\ Len(results.values) = 4
   /\ probe.sources = <<Src.Duration, Src.DPlusS, Src.DPlusDuration, Src.DMinusS>>)
    => LET duration == results.values[1]
           plus == results.values[2]
           plusDuration == results.values[3]
           minus == results.values[4]
       IN /\ duration.ok = results.parsed.ok
          /\ duration.ok =>
               /\ duration.val = Num(results.parsed.total)
               /\ plus.ok /\ plus.val = DateV(probe.d + results.parsed.total)
               /\ plusDuration.ok /\ plusDuration.val = plus.val
               /\ minus.ok /\ minus.val = DateV(probe.d - results.parsed.total)
          /\ ~duration.ok => ~(plus.ok /\ plus.val.t = "date")

C18_Witness ==
  /\ results.parsed.called
  /\ Len(results.values) = 4
  /\ probe.input.text = <<"1", " ", "d", "a", "y">>
  /\ probe.d = MILLISECONDS_IN.DAY
  /\ results.values[2].val = DateV(2 * MILLISECONDS_IN.DAY)
  /\ results.values[3].val = DateV(2 * MILLISECONDS_IN.DAY)
  /\ results.values[4].val = DateV(0)

\* C19: for Dates a and b, a - b is a number, the difference of the two
\* instants in milliseconds, and never a Date; a - x is a Date when x is a
\* finite number or a duration string that parses.
C19_DateSubtraction ==
  /\ (/\ Len(results.values) = 3
      /\ probe.sources = <<Src.DMinusE, Src.DMinusN, Src.DMinusS>>)
       => LET dates == results.values[1]
              number == results.values[2]
          IN /\ dates.ok /\ dates.val = Num(probe.d - probe.e)
             /\ number.ok /\ number.val = DateV(probe.d - probe.n)
  /\ (/\ Len(results.values) = Len(probe.sources)
      /\ probe.sources[Len(probe.sources)] = Src.DMinusS
      /\ results.parsed.called /\ results.parsed.ok)
       => LET string == results.values[Len(probe.sources)]
          IN string.ok /\ string.val = DateV(probe.d - results.parsed.total)

C19_Witness ==
  /\ Len(results.values) = 3
  /\ probe.d = MILLISECONDS_IN.WEEK
  /\ probe.e = MILLISECONDS_IN.DAY
  /\ probe.n = 600
  /\ results.values[1].val = Num(6 * MILLISECONDS_IN.DAY)
  /\ results.values[2].val = DateV(MILLISECONDS_IN.WEEK - 600)
  /\ results.values[3].val = DateV(0)

\* C20: a ?? b is the value of a exactly when a is neither null nor
\* undefined, so for false, 0 and the empty string too, and b is then not
\* evaluated; for a null or undefined a, b is evaluated and a ?? b is its
\* value.
C20_NullishCoalescing ==
  (/\ Len(results.values) = 2
   /\ probe.sources = <<Src.OrMissing, Src.OrFormulaB>>)
    => LET a == IF probe.a.present THEN probe.a.value ELSE Undefined
           orMissing == results.values[1]
           orFormulaB == results.values[2]
       IN IF a.t \in {"null", "undefined"}
          THEN /\ ~orMissing.ok
               /\ orMissing.err[Len(orMissing.err)] = "\"missing\" is not defined"
               /\ orFormulaB.ok /\ orFormulaB.val = Num(1) /\ orFormulaB.started = 1
          ELSE /\ orMissing.ok /\ orMissing.val = a
               /\ orFormulaB.ok /\ orFormulaB.val = a /\ orFormulaB.started = 0

C20_Witness ==
  /\ Len(results.values) = 2
  /\ probe.a = [present |-> TRUE, value |-> Bool(FALSE)]
  /\ results.values[1].ok
  /\ results.values[1].val = Bool(FALSE)
  /\ results.values[2].val = Bool(FALSE)
  /\ results.values[2].started = 0

\* C21: a regex literal evaluates to a value with a method matches(s) that
\* returns true exactly when s matches the pattern under the flags: the
\* expression /al/i.matches(note.a) evaluates to that boolean and raises
\* nothing.
C21_RegExpMatches ==
  \A k \in 1..Len(results.values) :
    probe.sources[k] = Src.Matches
      => /\ results.values[k].ok
         /\ results.values[k].val = Bool(RegExpTest(RegExpV("al", "i"), probe.a.value.s))

\* C22: every error raised while materializing carries the context label of
\* the layer that failed and keeps the original error at the end of its cause
\* chain: the outermost message is 'Failed to process <base or view filter
\* context of the file>' or 'Failed to evaluate property "<key>" for file
\* "<relativePath>"', every formula whose body raised appears in the chain as
\* 'Failed to evaluate formula "<name>"', and the innermost cause is the
\* original error, not a label.
C22_ErrorsCarryContext ==
  (thrown # <<>> /\ columnKeys # <<>>) =>
    LET paths == {vault[f].relativePath : f \in 1..Len(vault)}
        viewLabel == IF SelectedView.name.isString THEN SelectedView.name.value
                     ELSE selectedViewName
        layers ==
          {"Failed to process base filters for file \"" \o p \o "\"" : p \in paths}
            \cup {"Failed to process view \"" \o viewLabel \o "\" filters for file \""
                    \o p \o "\"" : p \in paths}
            \cup {"Failed to evaluate property \"" \o Join(columnKeys[c])
                    \o "\" for file \"" \o p \o "\"" :
                    c \in 1..Len(columnKeys), p \in paths}
        IsLabel(message) == Len(message) >= 10 /\ SubSeq(message, 1, 10) = "Failed to "
    IN /\ Len(thrown) >= 2
       /\ thrown[1] \in layers
       /\ ~IsLabel(thrown[Len(thrown)])
       /\ \A f \in 1..Len(vault) : \A x \in FormulaNames :
            evaluations[f].count[x] > evaluations[f].returned[x] =>
              \E k \in 2..(Len(thrown) - 1) :
                thrown[k] = "Failed to evaluate formula \"" \o x \o "\""

\* a column that reads a circular formula failed: the column's label, the
\* formula's label and the cycle error are all in the chain
C22_Witness ==
  /\ pc = "failed"
  /\ Len(thrown) >= 4
  /\ thrown[1] = "Failed to evaluate property \"formula.a\" for file \""
                   \o vault[1].relativePath \o "\""
  /\ \E k \in 2..(Len(thrown) - 1) : thrown[k] = "Failed to evaluate formula \"a\""
  /\ thrown[Len(thrown)] \in {CircularMessage(x) : x \in FormulaNames}

\* C23: when an expression fails to parse, the message of the error raised
\* contains the expression source as it was written, also for a source that
\* calls if(...) or file(...).
C23_ParseErrorCarriesSource ==
  LET Contains(message, source) ==
        \E k \in 1..(Len(message) - Len(source) + 1) : StartsWith(message, source, k)
  IN \A k \in 1..Len(results.values) :
       probe.sources[k] \in {Src.Bad, Src.BadIf, Src.BadFile, Src.BadAfterIf}
         => /\ ~results.values[k].ok
            /\ Contains(Chars(results.values[k].err[1]), probe.sources[k])

\* C24: the pre-processing rewrites exactly the occurrences of the names if
\* and file that lie outside single-, double- and backtick-quoted spans, are
\* neither preceded by an identifier character or a dot nor followed by an
\* identifier character, and are followed, across white space only, by an
\* opening parenthesis, to _if and _fileFn; every other character, those in
\* quoted spans included, is copied unchanged, in place.
C24_RewritesExactlyBareCalls ==
  results.called =>
    LET source == probe
        \* the quote that is open before position p ("" for none), and whether
        \* the character at p is escaped
        open[p \in 1..Len(source) + 1] ==
          IF p = 1 THEN [quote |-> "", escaped |-> FALSE]
          ELSE LET before == open[p - 1]
                   char == source[p - 1]
               IN IF before.quote = ""
                  THEN [quote |-> IF char \in {"'", "\"", Backtick} THEN char ELSE "",
                        escaped |-> FALSE]
                  ELSE IF before.escaped THEN [quote |-> before.quote, escaped |-> FALSE]
                  ELSE IF char = "\\" THEN [quote |-> before.quote, escaped |-> TRUE]
                  ELSE [quote |-> IF char = before.quote THEN "" ELSE before.quote,
                        escaped |-> FALSE]
        Names == {<<"i", "f">>, <<"f", "i", "l", "e">>}
        AliasFor(name) == IF name = <<"i", "f">> THEN <<"_", "i", "f">>
                          ELSE <<"_", "f", "i", "l", "e", "F", "n">>
        OnlyWhitespaceThenParenthesis(p) ==
          \E q \in p..Len(source) :
            /\ source[q] = "("
            /\ \A w \in p..(q - 1) : source[w] \in Whitespace
        Call(p, name) ==
          /\ open[p].quote = ""
          /\ StartsWith(source, name, p)
          /\ ~isIdentifierCharacter(CharAt(source, p - 1))
          /\ CharAt(source, p - 1) # "."
          /\ ~isIdentifierCharacter(CharAt(source, p + Len(name)))
          /\ OnlyWhitespaceThenParenthesis(p + Len(name))
        Covered(p) ==
          \E name \in Names : \E q \in (p - Len(name) + 1)..(p - 1) :
            q >= 1 /\ Call(q, name)
        Piece(p) ==
          IF \E name \in Names : Call(p, name)
          THEN AliasFor(CHOOSE name \in Names : Call(p, name))
          ELSE IF Covered(p) THEN <<>>
          ELSE <<source[p]>>
    IN results.normalized = Concat([p \in 1..Len(source) |-> Piece(p)])

\* the source 'BACKSLASH'' file( of one span with an escaped quote: the call
\* of file after the span is rewritten and the span is copied
C24_Witness ==
  /\ results.called
  /\ probe = <<"'", "\\", "'", "'", "f", "i", "l", "e", "(">>
  /\ results.normalized = <<"'", "\\", "'", "'", "_", "f", "i", "l", "e", "F", "n", "(">>

\* C25: after the vault is loaded, backlinks are the inverse of link
\* resolution: g's relative path is in f.backlinks exactly when some link or
\* embed of g has the resolvedPath f.relativePath; no backlinks list holds a
\* path twice, and every resolvedPath is the relative path of a vault file.
C25_BacklinksInvertLinks ==
  results.loaded =>
    LET LinksOf(g) == Range(vault[g].links) \cup Range(vault[g].embeds)
    IN /\ \A f, g \in 1..Len(vault) :
            vault[g].relativePath \in Range(vault[f].backlinks)
              <=> \E link \in LinksOf(g) :
                    link.resolved /\ link.resolvedPath = vault[f].relativePath
       /\ \A f \in 1..Len(vault) :
            \A j, k \in 1..Len(vault[f].backlinks) :
              vault[f].backlinks[j] = vault[f].backlinks[k] => j = k
       /\ \A g \in 1..Len(vault) : \A link \in LinksOf(g) :
            link.resolved =>
              \E f \in 1..Len(vault) : vault[f].relativePath = link.resolvedPath

\* dir/b.md is linked twice from a.md and once from dir/a.md, and is listed
\* once for each of them
C25_Witness ==
  /\ results.loaded
  /\ vault[1].relativePath = "a.md"
  /\ Len(vault[1].links) = 2
  /\ \A k \in 1..2 : vault[1].links[k].resolvedPath = "dir/b.md"
  /\ vault[3].relativePath = "dir/b.md"
  /\ vault[3].backlinks = <<"a.md", "dir/a.md">>

\* C26: for each file the base filter is evaluated before the view filter,
\* and the view filter only when the base filter matched: the view filter is
\* about to be evaluated only on a file the base filter matches, a file the
\* base filter rejects keeps the evaluation state the base filter left (no
\* formula read by the view filter was started), and an error of the view
\* filter names a file that the base filter matches.
C26_ViewFilterAfterBaseMatch ==
  LET BaseFilter(f) ==
        matchesFilter(base.filters, StateOf(NewEvaluation(vault[f], base.formulas), f),
                      "base filters for file \"" \o vault[f].relativePath \o "\"")
      Matched(r) == r.ok /\ Truthy(r.val)
      Rejected(r) == r.ok /\ ~Truthy(r.val)
      Untouched(f, r) == Rejected(r) => evaluations[f] = Persist(r.st)
      viewLabel == IF SelectedView.name.isString THEN SelectedView.name.value
                   ELSE selectedViewName
  IN /\ pc = "view" => Matched(BaseFilter(i))
     /\ \A f \in 1..Len(vault) :
          /\ evaluations[f].built => Untouched(f, BaseFilter(f))
          /\ (thrown # <<>> /\ viewIndex # 0
                /\ thrown[1] = "Failed to process view \"" \o viewLabel
                                 \o "\" filters for file \"" \o vault[f].relativePath \o "\"")
               => Matched(BaseFilter(f))

\* the first file was rejected by the base filter, and the view filter, which
\* raises on every file, raised on the second file only
C26_Witness ==
  /\ pc = "failed"
  /\ base.filters = FilterString(Src.StatusX)
  /\ vault = Reverse(Vault)
  /\ evaluations[1].built
  /\ thrown = <<"Failed to process view \"Main\" filters for file \"n1.md\"",
                "Failed to evaluate view \"Main\" filters for file \"n1.md\" expression \"missing\"",
                "\"missing\" is not defined">>

\* C27: materialize evaluates the base and view filters of every file
\* before it evaluates any column. A filter that raises on any file, also on
\* one that the limit would cut off, ends the run with the filter's error,
\* no body row and no output. Columns are evaluated only for the files
\* retained after the limit, row by row and left to right: a column error
\* names a retained file and the first failing column of its row, a file
\* that is not retained keeps the evaluation state the filters left, and a
\* run that ends well has one body row per retained file.
C27_FiltersBeforeColumns ==
  (viewIndex # 0 /\ columnKeys # <<>>) =>
    LET viewLabel == IF SelectedView.name.isString THEN SelectedView.name.value
                     ELSE selectedViewName
        ViewFilter(f, b) ==
          IF b.ok /\ Truthy(b.val)
          THEN matchesFilter(SelectedView.filters, b.st,
                             "view \"" \o viewLabel \o "\" filters for file \""
                               \o vault[f].relativePath \o "\"")
          ELSE b
        BaseFilter(f, st) ==
          matchesFilter(base.filters, st,
                        "base filters for file \"" \o vault[f].relativePath \o "\"")
        filtered ==
          [f \in 1..Len(vault) |->
             CHOOSE v \in {ViewFilter(f, b) :
                             b \in {BaseFilter(f, st) :
                                      st \in {StateOf(NewEvaluation(vault[f], base.formulas),
                                                      f)}}} : TRUE]
        raising == {f \in 1..Len(vault) : ~filtered[f].ok}
        RECURSIVE MatchesFrom(_)
        MatchesFrom(f) ==
          IF f > Len(vault) THEN <<>>
          ELSE (IF filtered[f].ok /\ Truthy(filtered[f].val) THEN <<f>> ELSE <<>>)
                 \o MatchesFrom(f + 1)
        retained == LimitedMatches(MatchesFrom(1), LimitOf(SelectedView.limit))
        ColumnLabel(c, f) ==
          "Failed to evaluate property \"" \o Join(columnKeys[c]) \o "\" for file \""
            \o vault[f].relativePath \o "\""
    IN /\ pc \in {"limit", "column", "render", "done"} =>
            /\ raising = {}
            /\ \A f \in 1..Len(vault) : evaluations[f].built
       /\ (pc = "failed" /\ raising # {}) =>
            /\ \E f \in raising : thrown[1] = filtered[f].err[1]
            /\ Len(rows) = 1
            /\ row = <<>>
            /\ stdout = <<>>
       /\ (pc = "failed" /\ raising = {}) =>
            \E k \in 1..Len(retained) :
              /\ Len(rows) = k
              /\ thrown[1] = ColumnLabel(Len(row) + 1, retained[k])
       /\ pc = "done" => Len(rows) = 1 + Len(retained)
       /\ (pc \in {"done", "failed"} /\ raising = {}) =>
            \A f \in 1..Len(vault) :
              f \notin Range(retained) => evaluations[f] = Persist(filtered[f].st)

\* two files match, the limit retains the first, and the column that would
\* raise on the second is not evaluated: the run ends well with one body row
C27_Witness ==
  /\ pc = "done"
  /\ vault = Vault
  /\ columnKeys = <<Src.XOrMissing, Src.FormulaA>>
  /\ matches = <<1, 2>>
  /\ limitedMatches = <<1>>
  /\ rows = <<<<"status == 'x' || missing", "formula.a">>, <<"true", "x">>>>
  /\ evaluations[2].count["a"] = 0

\* C28: cycle detection is demand-driven. A formula whose reference to
\* itself, or to the formula that is in progress, lies in an operand that is
\* not evaluated (the untaken branch of ?:, the right side of a
\* short-circuited ||, && or ??) evaluates to its value, which is cached; no
\* circular-reference error is raised, and the formula in progress that
\* demanded it gets its value as well.
C28_UnevaluatedReferenceIsNoCycle ==
  LET formulas == FormulaMap(base.formulas)
      guarded == {Body(Src.GuardA), Body(Src.AndA), Body(Src.CoalesceA), Body(Src.CondA)}
      ValueOfBody(body) ==
        CASE body = Body(Src.GuardA) -> Bool(TRUE)
          [] body = Body(Src.AndA) -> Bool(FALSE)
          [] body = Body(Src.CoalesceA) -> Num(1)
          [] body = Body(Src.CondA) -> Num(2)
      alone == "a" \in DOMAIN formulas /\ "b" \notin DOMAIN formulas
                 /\ formulas["a"] \in guarded
      demanded == "a" \in DOMAIN formulas /\ "b" \in DOMAIN formulas
                    /\ formulas["a"] = Body(Src.BPlus1) /\ formulas["b"] \in guarded
      \* formula.b + 1 for the values of the guarded bodies: a boolean counts
      \* as 0 or 1
      PlusOne(v) == Num(v.n + 1)
      Expected(name) ==
        IF alone THEN ValueOfBody(formulas["a"])
        ELSE IF name = "b" THEN ValueOfBody(formulas["b"])
        ELSE PlusOne(ValueOfBody(formulas["b"]))
      Read(s, name) ==
        /\ results[s].ok
        /\ results[s].err = <<>>
        /\ results[s].val = Expected(name)
        /\ name \in DOMAIN evaluations[s].formulaCache
        /\ evaluations[s].formulaCache[name] = Expected(name)
        /\ evaluations[s].reentered = {}
        /\ evaluations[s].evaluating = {}
  IN \A s \in Scopes :
       results[s].called =>
         /\ (probe = Src.FormulaA /\ (alone \/ demanded)) => Read(s, "a")
         /\ (probe = Src.FormulaB /\ demanded) => Read(s, "b")
         /\ (probe = Src.FormulaA /\ demanded) =>
              evaluations[s].formulaCache["b"] = Expected("b")

\* formula.a, which is formula.b + 1, was read; formula.b, which names
\* formula.a in the untaken branch of its conditional, returned 2 while
\* formula.a was in progress
C28_Witness ==
  /\ probe = Src.FormulaA
  /\ DOMAIN FormulaMap(base.formulas) = {"a", "b"}
  /\ FormulaMap(base.formulas)["a"] = Body(Src.BPlus1)
  /\ FormulaMap(base.formulas)["b"] = Body(Src.CondA)
  /\ results[1].called
  /\ results[1].val = Num(3)
  /\ evaluations[1].formulaCache["b"] = Num(2)
  /\ evaluations[1].count = [k \in FormulaNames |-> 1]

\* C29: after a call of evaluate on an evaluation state returned or raised,
\* no formula is marked as in progress and no formula whose body raised is
\* cached; the next access to a formula that failed, with a cycle error or
\* another, starts its body again and raises the same error as before, not a
\* circular reference of its own making and not a value.
C29_FailureLeavesNoTrace ==
  [][\A s \in Scopes :
       LET before == evaluations[s]
           after == evaluations'[s]
           name == IF probe = Src.FormulaA THEN "a" ELSE "b"
           failed == /\ probe \in {Src.FormulaA, Src.FormulaB}
                     /\ results[s].called
                     /\ ~results[s].ok
       IN /\ after.evaluating = {}
          /\ after.stack = <<>>
          /\ \A k \in FormulaNames :
               after.count[k] > after.returned[k] => k \notin DOMAIN after.formulaCache
          /\ (results'[s] # results[s] /\ failed) =>
               /\ after.count[name] = before.count[name] + 1
               /\ ~results'[s].ok
               /\ results'[s].err = results[s].err]_vars

\* formula.a, which is formula.b + 1 with formula.b = formula.a + 1, was read
\* twice: each read started both bodies and raised the cycle error
C29_Witness ==
  /\ probe = Src.FormulaA
  /\ results[1].calls = 2
  /\ evaluations[1].count = [k \in FormulaNames |-> 2]
  /\ evaluations[1].returned = [k \in FormulaNames |-> 0]
  /\ evaluations[1].formulaCache = <<>>
  /\ results[1].err[Len(results[1].err)] = CircularMessage("a")

\* C30: every non-empty result of materialize is rectangular. Its first row
\* is the header, with one cell per column key: the displayName of the key's
\* property when that is a non-empty string, else the key. Every body row has
\* as many cells as the header, and the result has one body row per retained
\* file, in the order in which the files were iterated.
C30_ResultIsRectangular ==
  rows # <<>> =>
    LET HeaderCell(key) ==
          LET named == {n \in 1..Len(base.properties.entries) :
                          /\ base.properties.entries[n].key = key
                          /\ base.properties.entries[n].displayName.isString
                          /\ base.properties.entries[n].displayName.value # ""}
          IN IF base.properties.present /\ named # {}
             THEN base.properties.entries[CHOOSE n \in named : TRUE].displayName.value
             ELSE Join(key)
    IN /\ columnKeys # <<>>
       /\ Len(rows[1]) = Len(columnKeys)
       /\ \A c \in 1..Len(columnKeys) : rows[1][c] = HeaderCell(columnKeys[c])
       /\ \A k \in 2..Len(rows) :
            /\ Len(rows[k]) = Len(rows[1])
            /\ \A c \in 1..Len(columnKeys) :
                 columnKeys[c] = Src.FileName =>
                   rows[k][c] = vault[limitedMatches[k - 1]].name
       /\ pc \in {"render", "done"} =>
            /\ Len(rows) = 1 + Len(limitedMatches)
            /\ \A j, k \in 1..Len(limitedMatches) :
                 j < k => limitedMatches[j] < limitedMatches[k]

\* a result of three rows: the header names the column status by its
\* displayName, and the two body rows follow the files
C30_Witness ==
  /\ pc = "done"
  /\ columnKeys = <<Src.Status, Src.FileName>>
  /\ rows = <<<<"Status", " file.name ">>, <<"x", "n1">>, <<"y", "n2">>>>

====
